---- MODULE Spec2Model ----
(***************************************************************************)
(* Model of the Revnet simulator (src/unnamed/part_004): the seeded        *)
(* generators, the constant-product Pool, the Revnet issuance/redemption   *)
(* engine, the Simulator's routing functions and its day loop.             *)
(*                                                                         *)
(* Numbers.  A JavaScript Number is modelled as the IEEE 754 double it is: *)
(* every +, -, *, / of the code is the operator RAdd, RSub, RMul, RDiv     *)
(* below, which rounds its exact result to the nearest double, and every   *)
(* comparison is made on the doubles.  Infinity, NaN and the sign of zero  *)
(* are modelled.  A decimal numeral such as 0.9 is the double nearest to   *)
(* it, Q(9, 10).  Math.pow and Math.exp are not specified to the last bit: *)
(* where their exact result is not a double, the model admits the doubles  *)
(* next to it (section Math.pow) or bounds of it (section samplers).       *)
(***************************************************************************)
EXTENDS Integers, Sequences, FiniteSets, TLC


VARIABLES
    page,               \* the values of the input elements of the page, as runSimulation groups them
    cfg,                \* revnetParams, poolParams and simParams of this run
    revnet,             \* the Revnet: its parameters, tokenSupply, ethBalance, tokensSentToBoost
    pool,               \* Pool fields: eth, revnetToken and the two fee accumulators
    day,                \* Simulator.day
    traders,            \* Simulator.traders
    simulationResults,  \* Simulator.simulationResults
    pc,                 \* position: "start", "purchases", "sales", "done"; "revnet", "pool"
    i,                  \* counter of the purchase loop
    k,                  \* index of the forEach over traders (1-based)
    dailyPurchases,     \* the day's purchases so far
    dailySales,         \* the day's sales so far
    poissonRand,        \* state of the generator newLCG(randomnessSeed + 2)
    buyRand,            \* state of the generator newLCG(randomnessSeed)
    sellRand,           \* state of the generator newLCG(randomnessSeed + 1)
    calls,              \* the calls made on the router, the Revnet and the Pool so far
    samples,            \* results of the samplers by generator state, and of Math.pow by arguments
    run,                \* 1 in the first runSimulation() of this process, 2 in a later one
    returned            \* the preceding runSimulation(): the parameters it read, the [results, traders] it returned

vars == <<page, cfg, revnet, pool, day, traders, simulationResults, pc, i, k,
          dailyPurchases, dailySales, poissonRand, buyRand, sellRand,
          calls, samples, run, returned>>

(***************************************************************************)
(* Natural numbers of any size.  TLC's integers have 32 bits and a double  *)
(* has a significand of 53, so a natural number is kept as the sequence of *)
(* its digits in base 2^15, the least significant first and the last one   *)
(* not 0; <<>> is 0.  The product of two digits and a carry stays below    *)
(* 2^31.                                                                   *)
(***************************************************************************)
Base == 32768

LimbBits == 15

Min(a, b) == IF a < b THEN a ELSE b

Max(a, b) == IF a > b THEN a ELSE b

Pow2(n) == 2 ^ n

\* the number of bits of a digit n
Width(n) == Cardinality({w \in 0..(LimbBits - 1) : Pow2(w) <= n})

RECURSIVE Big(_)
\* the digits of the integer n >= 0
Big(n) == IF n = 0 THEN <<>> ELSE <<n % Base>> \o Big(n \div Base)

\* a without its leading digits that are 0
Trim(a) ==
    SubSeq(a, 1, Cardinality({j \in 1..Len(a) : \E h \in j..Len(a) : a[h] # 0}))

Limb(a, j) == IF j <= Len(a) THEN a[j] ELSE 0

Bits(a) == IF a = <<>> THEN 0 ELSE LimbBits * (Len(a) - 1) + Width(a[Len(a)])

Odd(a) == Limb(a, 1) % 2 = 1

\* -1, 0 or 1 as a is below, equal to or above b: the highest digit in which
\* they differ decides
BigCmp(a, b) ==
    LET Decided(differing) ==
            IF differing = {} THEN 0
            ELSE IF \E j \in differing :
                        /\ \A h \in differing : h <= j
                        /\ Limb(a, j) < Limb(b, j)
                 THEN -1
            ELSE 1
    IN  Decided({j \in 1..Max(Len(a), Len(b)) : Limb(a, j) # Limb(b, j)})

RECURSIVE BigAddFrom(_, _, _, _)
BigAddFrom(a, b, j, carry) ==
    IF j > Len(a) /\ j > Len(b) THEN (IF carry = 0 THEN <<>> ELSE <<carry>>)
    ELSE LET t == Limb(a, j) + Limb(b, j) + carry
         IN  <<t % Base>> \o BigAddFrom(a, b, j + 1, t \div Base)

BigAdd(a, b) == Trim(BigAddFrom(a, b, 1, 0))

RECURSIVE BigSubFrom(_, _, _, _)
BigSubFrom(a, b, j, borrow) ==
    IF j > Len(a) THEN <<>>
    ELSE LET t == a[j] - Limb(b, j) - borrow
         IN  <<(t + Base) % Base>>
                 \o BigSubFrom(a, b, j + 1, IF t < 0 THEN 1 ELSE 0)

\* a - b for a >= b
BigSub(a, b) == Trim(BigSubFrom(a, b, 1, 0))

RECURSIVE BigTimesFrom(_, _, _, _)
BigTimesFrom(a, d, j, carry) ==
    IF j > Len(a) THEN (IF carry = 0 THEN <<>> ELSE <<carry>>)
    ELSE LET t == a[j] * d + carry
         IN  <<t % Base>> \o BigTimesFrom(a, d, j + 1, t \div Base)

\* a * d for one digit d
BigTimes(a, d) == Trim(BigTimesFrom(a, d, 1, 0))

RECURSIVE BigMul(_, _)
BigMul(a, b) ==
    IF a = <<>> \/ b = <<>> THEN <<>>
    ELSE BigAdd(BigTimes(a, b[1]),
                LET rest == BigMul(a, Tail(b))
                IN  IF rest = <<>> THEN <<>> ELSE <<0>> \o rest)

RECURSIVE BigPow(_, _)
BigPow(a, n) == IF n = 0 THEN <<1>> ELSE BigMul(BigPow(a, n - 1), a)

\* a * 2^n
\* each digit is the low part of its own product and the high part of the
\* product of the digit below
ShiftLeft(a, n) ==
    LET Times(p) ==
            Trim([j \in 1..(Len(a) + 1) |->
                      ((Limb(a, j) * p) % Base)
                          + (IF j = 1 THEN 0 ELSE (a[j - 1] * p) \div Base)])
    IN  IF a = <<>> THEN <<>>
        ELSE [j \in 1..(n \div LimbBits) |-> 0] \o Times(Pow2(n % LimbBits))

\* <<the integer part of a / 2^n, whether a bit of a was dropped>>: each
\* digit is the high part of its own and the low part of the digit above
ShiftRight(a, n) ==
    LET Shifted(whole, p) ==
            <<Trim([j \in 1..(Len(a) - whole) |->
                        (a[whole + j] \div p)
                            + (Limb(a, whole + j + 1) % p) * (Base \div p)]),
              \/ \E j \in 1..whole : a[j] # 0
              \/ Limb(a, whole + 1) % p # 0>>
    IN  Shifted(Min(n \div LimbBits, Len(a)), Pow2(n % LimbBits))

\* the integer part of a / 2
BigHalf(a) == ShiftRight(a, 1)[1]

RECURSIVE Quotient(_, _, _)
\* the largest digit q with b * q <= r, from an estimate q that is not below
Quotient(r, b, q) ==
    IF BigCmp(BigTimes(b, q), r) > 0 THEN Quotient(r, b, q - 1) ELSE q

\* one step of the long division by b: <<the digit of the remainder r1 put
\* before the digits qs, the remainder it leaves>>.  The leading digit of b
\* is at least Base / 2, so that the estimate of the digit from the two
\* leading digits of the remainder is at most 2 above the digit
Digit(b, r1, qs) ==
    LET n == Len(b)
        Left(q) == <<<<q>> \o qs, BigSub(r1, BigTimes(b, q))>>
    IN  Left(Quotient(r1, b,
                      Min(Base - 1,
                          (Limb(r1, n + 1) * Base + Limb(r1, n)) \div b[n])))

RECURSIVE BigDivFrom(_, _, _, _)
\* long division of the digits j, j - 1, ..., 1 of a by b, from qr = <<the
\* digits of the quotient found, the remainder>> of the digits above j
BigDivFrom(a, b, j, qr) ==
    IF j = 0 THEN qr
    ELSE IF qr[2] = <<>> /\ a[j] = 0
         THEN BigDivFrom(a, b, j - 1, <<<<0>> \o qr[1], <<>>>>)
    ELSE BigDivFrom(a, b, j - 1, Digit(b, Trim(<<a[j]>> \o qr[2]), qr[1]))

\* <<the integer part of a / b, whether there is a remainder>> for b # 0
BigDiv(a, b) ==
    LET s == LimbBits - Width(b[Len(b)])
        Result(qr) == <<Trim(qr[1]), qr[2] # <<>>>>
        Divided(a1, b1) == Result(BigDivFrom(a1, b1, Len(a1), <<<<>>, <<>>>>))
    IN  Divided(ShiftLeft(a, s), ShiftLeft(b, s))

(***************************************************************************)
(* JavaScript Numbers: IEEE 754 doubles, rounded to nearest, ties to even. *)
(* A Number is <<kind, sign, e, m>>: kind 0 is the finite number           *)
(* (-1)^sign * m * 2^e with a significand m < 2^53, which is 0 with e = 0, *)
(* or has 53 bits, or has fewer and e = MinExp (a subnormal); kind 1 is    *)
(* Infinity of that sign and kind 2 is NaN.  Each operation computes the   *)
(* exact result and rounds it once, as the hardware does.                  *)
(***************************************************************************)
Precision == 53

MinExp == -1074

MaxExp == 971

NaN == <<2, 0, 0, <<>>>>

Infinity == <<1, 0, 0, <<>>>>

SignedInfinity(s) == <<1, s, 0, <<>>>>

SignedZero(s) == <<0, s, 0, <<>>>>

Zero == SignedZero(0)

IsNaN(x) == x[1] = 2

IsFinite(x) == x[1] = 0

IsZero(x) == x[1] = 0 /\ x[4] = <<>>

Negative(x) == x[2] = 1

\* the Number (-1)^s * m * 2^e of a significand m of at most Precision bits
Finite(s, m, e) ==
    IF m = <<>> THEN SignedZero(s)
    ELSE IF e > MaxExp THEN SignedInfinity(s)
    ELSE <<0, s, e, m>>

\* the double nearest to (-1)^s * (n + f) * 2^e, where 0 <= f < 1 and f # 0
\* iff `more`; when `more`, n has more than Precision + 1 bits.  With bits
\* to drop, q holds one bit more than is kept: the bit that decides, with
\* the bits dropped after it, whether the significand t is rounded up
Round(s, n, e, more) ==
    LET Exact(up) == Finite(s, ShiftLeft(n, up), e - up)
        Carried(m, e1) ==
            IF Bits(m) > Precision THEN Finite(s, BigHalf(m), e1 + 1)
            ELSE Finite(s, m, e1)
        Nearest(q, t, e1) ==
            Carried(IF Odd(q[1]) /\ (q[2] \/ more \/ Odd(t))
                    THEN BigAdd(t, <<1>>) ELSE t, e1)
        Dropping(q, e1) == Nearest(q, BigHalf(q[1]), e1)
        By(drop) ==
            IF n = <<>> THEN SignedZero(s)
            ELSE IF drop <= 0 THEN Exact(Min(-drop, e - MinExp))
            ELSE Dropping(ShiftRight(n, drop - 1), e + drop)
    IN  By(Max(Bits(n) - Precision, MinExp - e))

\* the Number of the integer n
R(n) == Round(IF n < 0 THEN 1 ELSE 0, Big(IF n < 0 THEN -n ELSE n), 0, FALSE)

\* 1 = 2^52 * 2^-52, which is R(1)
One == <<0, 0, -52, <<0, 0, 0, 128>>>>

\* -x
RNeg(x) == IF IsNaN(x) THEN x ELSE <<x[1], 1 - x[2], x[3], x[4]>>

\* |x| < |y| for two Numbers that are not NaN
Smaller(x, y) ==
    IF x[1] # y[1] THEN x[1] < y[1]
    ELSE IF x[1] = 1 THEN FALSE
    ELSE IF x[4] = <<>> \/ y[4] = <<>> THEN y[4] # <<>>
    ELSE IF x[3] # y[3] THEN x[3] < y[3]
    ELSE BigCmp(x[4], y[4]) < 0

\* x < y (false when either side is NaN; -0 is not below 0)
RLt(x, y) ==
    IF IsNaN(x) \/ IsNaN(y) THEN FALSE
    ELSE IF IsZero(x) /\ IsZero(y) THEN FALSE
    ELSE IF x[2] # y[2] THEN x[2] = 1
    ELSE Smaller(IF x[2] = 0 THEN x ELSE y, IF x[2] = 0 THEN y ELSE x)

\* x > y
RGt(x, y) == RLt(y, x)

\* x <= y
RLe(x, y) == ~IsNaN(x) /\ ~IsNaN(y) /\ ~RLt(y, x)

\* x >= y
RGe(x, y) == RLe(y, x)

\* x === y
REq(x, y) == ~IsNaN(x) /\ ~IsNaN(y) /\ ~RLt(x, y) /\ ~RLt(y, x)

\* the sum of two finite Numbers, the exponent of x not below that of y.
\* When the exponents are further apart than a double's bits reach, y only
\* decides which way the sum is rounded
AddAligned(x, y) ==
    LET d == x[3] - y[3]
        Rounded(t) == Round(t[1], t[2], t[3], t[4])
        Apart(a) ==
            <<x[2], IF x[2] = y[2] THEN a ELSE BigSub(a, <<1>>), x[3] - 2, TRUE>>
        Differing(a, c) ==
            IF c = 0 THEN <<0, <<>>, 0, FALSE>>
            ELSE IF c > 0 THEN <<x[2], BigSub(a, y[4]), y[3], FALSE>>
            ELSE <<y[2], BigSub(y[4], a), y[3], FALSE>>
        Close(a) ==
            IF x[2] = y[2] THEN <<x[2], BigAdd(a, y[4]), y[3], FALSE>>
            ELSE Differing(a, BigCmp(a, y[4]))
    IN  IF x[4] = <<>> THEN y
        ELSE IF y[4] = <<>> THEN x
        ELSE Rounded(IF d > Precision + 2 THEN Apart(ShiftLeft(x[4], 2))
                     ELSE Close(ShiftLeft(x[4], d)))

\* x + y
RAdd(x, y) ==
    IF IsNaN(x) \/ IsNaN(y) THEN NaN
    ELSE IF ~IsFinite(x) /\ ~IsFinite(y) THEN (IF x = y THEN x ELSE NaN)
    ELSE IF ~IsFinite(x) THEN x
    ELSE IF ~IsFinite(y) THEN y
    ELSE IF IsZero(x) /\ IsZero(y)
         THEN SignedZero(IF x[2] = 1 /\ y[2] = 1 THEN 1 ELSE 0)
    ELSE AddAligned(IF x[3] >= y[3] THEN x ELSE y,
                    IF x[3] >= y[3] THEN y ELSE x)

\* x - y
RSub(x, y) == RAdd(x, RNeg(y))

\* x * y
RMul(x, y) ==
    LET s == (x[2] + y[2]) % 2
    IN  IF IsNaN(x) \/ IsNaN(y) THEN NaN
        ELSE IF ~IsFinite(x) \/ ~IsFinite(y)
             THEN (IF IsZero(x) \/ IsZero(y) THEN NaN ELSE SignedInfinity(s))
        ELSE Round(s, BigMul(x[4], y[4]), x[3] + y[3], FALSE)

\* x / y: the quotient of the significands to Precision + 3 bits or more, and
\* whether the division left a remainder
RDiv(x, y) ==
    LET s == (x[2] + y[2]) % 2
        Rounded(q, n) == Round(s, q[1], x[3] - y[3] - n, q[2])
        Scaled(n) == Rounded(BigDiv(ShiftLeft(x[4], n), y[4]), n)
    IN  IF IsNaN(x) \/ IsNaN(y) THEN NaN
        ELSE IF ~IsFinite(x) /\ ~IsFinite(y) THEN NaN
        ELSE IF ~IsFinite(x) THEN SignedInfinity(s)
        ELSE IF ~IsFinite(y) THEN SignedZero(s)
        ELSE IF IsZero(y) THEN (IF IsZero(x) THEN NaN ELSE SignedInfinity(s))
        ELSE IF IsZero(x) THEN SignedZero(s)
        ELSE Scaled(Precision + 3 + Bits(y[4]) - Bits(x[4]))

\* the Number nearest to the fraction n / d of two integers, which is the
\* Number a decimal numeral of that value is read as
Q(n, d) == RDiv(R(n), R(d))

(***************************************************************************)
(* Math.pow.  ECMAScript leaves the result of Math.pow to the              *)
(* implementation where the exact power is not a double; the              *)
(* implementations err by less than one unit in the last place, so the     *)
(* result is one of the two doubles next to the exact power.  It is a      *)
(* function of its arguments nevertheless: `samples` holds, from the start *)
(* of a run, the result of each inexact power that can be asked for: the   *)
(* powers of 1 - priceCeilingIncreasePercentage for the days 0..PowerDays. *)
(***************************************************************************)
Known(kind, s) == {e[3] : e \in {x \in samples : x[1] = kind /\ x[2] = s}}

\* the doubles Math.pow(x, n) can be for an integer n >= 0: the exact power
\* when a double holds it, the doubles below and above it otherwise
powValues(x, n) ==
    LET s == (x[2] * n) % 2
        e == x[3] * n
        Doubles(significands) ==
            {Round(s, t[1], t[2], FALSE) : t \in significands}
        Around(p, q, drop) ==
            Doubles(IF drop <= 0 \/ ~q[2] THEN {<<p, e>>}
                    ELSE {<<q[1], e + drop>>, <<BigAdd(q[1], <<1>>), e + drop>>})
        Dropping(p, drop) == Around(p, ShiftRight(p, Max(drop, 0)), drop)
        Of(p) == Dropping(p, Max(Bits(p) - Precision, MinExp - e))
    IN  IF n = 0 THEN {One}
        ELSE IF n = 1 \/ IsNaN(x) THEN {x}
        ELSE IF ~IsFinite(x) THEN {SignedInfinity(s)}
        ELSE Of(BigPow(x[4], n))

\* the arguments <<x, n>> of the days 0..most, n = Math.floor(day / frequency),
\* whose power is not a double
inexactPowers(x, frequency, most) ==
    {a \in {<<x, d \div frequency>> : d \in 0..most} :
        Cardinality(powValues(a[1], a[2])) > 1}

\* the results an implementation gives for the arguments in `arguments`, as
\* entries of `samples`
powSamples(arguments) ==
    {{<<"pow", a, f[a]>> : a \in arguments} :
        f \in {g \in [arguments -> UNION {powValues(a[1], a[2]) : a \in arguments}] :
                   \A a \in arguments : g[a] \in powValues(a[1], a[2])}}

\* Math.pow(x, n) in this process: the exact power when a double holds it,
\* the result `samples` holds for the arguments otherwise
pow(x, n) ==
    LET Of(values) ==
            IF Cardinality(values) = 1 THEN values
            ELSE Known("pow", <<x, n>>) \cap values
    IN  CHOOSE y \in Of(powValues(x, n)) : TRUE

(***************************************************************************)
(* newLCG.  The generator state is an integer in [0, 2^32), kept as two    *)
(* 16-bit halves <<hi, lo>> (state = hi * 2^16 + lo) so that the products  *)
(* of the update stay inside TLC's 32-bit integers.                        *)
(***************************************************************************)
Half == 65536

LcgAHi == 25

LcgALo == 26125

LcgCHi == 15470

LcgCLo == 62303

\* let currentSeed = seed
newLCG(seed) == <<seed \div Half, seed % Half>>

\* currentSeed = (a * currentSeed + c) % m, with a = LcgAHi * 2^16 + LcgALo
\* and c = LcgCHi * 2^16 + LcgCLo
lcgNext(s) ==
    LET low  == LcgALo * s[2] + LcgCLo
        high == LcgALo * s[1] + LcgAHi * s[2] + LcgCHi + (low \div Half)
    IN  <<high % Half, low % Half>>

RECURSIVE lcgAdvance(_, _)
lcgAdvance(s, n) == IF n = 0 THEN s ELSE lcgAdvance(lcgNext(s), n - 1)

\* currentSeed / m for the state s: the division is exact, a state having
\* 32 bits
lcgValue(s) ==
    Round(0, BigAdd(ShiftLeft(Big(s[1]), 16), Big(s[2])), -32, FALSE)

(***************************************************************************)
(* class Pool                                                              *)
(***************************************************************************)
newPool(eth, revnetToken, dayDeployed, fee) ==
    [eth |-> eth, revnetToken |-> revnetToken, dayDeployed |-> dayDeployed,
     fee |-> fee, ethFeesAccumulated |-> Zero,
     revnetTokenFeesAccumulated |-> Zero]

provideEth(p, amount) == [p EXCEPT !.eth = RAdd(p.eth, amount)]

provideRevnetTokens(p, amount) ==
    [p EXCEPT !.revnetToken = RAdd(p.revnetToken, amount)]

getMarginalPriceOfEth(p) == RDiv(p.revnetToken, p.eth)

getMarginalPriceOfRevnetToken(p) == RDiv(p.eth, p.revnetToken)

getEthReturnPlusFee(p, revnetTokenAmount) ==
    LET invariant == RMul(p.eth, p.revnetToken)
        newRevnetTokenBalance == RAdd(p.revnetToken, revnetTokenAmount)
        newEthBalance == RDiv(invariant, newRevnetTokenBalance)
    IN  RSub(p.eth, newEthBalance)

getEthReturn(p, revnetTokenAmount) ==
    LET invariant == RMul(p.eth, p.revnetToken)
        newRevnetTokenBalance == RAdd(p.revnetToken, revnetTokenAmount)
        newEthBalance == RDiv(invariant, newRevnetTokenBalance)
    IN  RMul(RSub(p.eth, newEthBalance), RSub(One, p.fee))

getRevnetTokenReturnPlusFee(p, ethAmount) ==
    LET invariant == RMul(p.eth, p.revnetToken)
        newEthBalance == RAdd(p.eth, ethAmount)
        newRevnetTokenBalance == RDiv(invariant, newEthBalance)
    IN  RSub(p.revnetToken, newRevnetTokenBalance)

getRevnetTokenReturn(p, ethAmount) ==
    LET invariant == RMul(p.eth, p.revnetToken)
        newEthBalance == RAdd(p.eth, ethAmount)
        newRevnetTokenBalance == RDiv(invariant, newEthBalance)
    IN  RMul(RSub(p.revnetToken, newRevnetTokenBalance), RSub(One, p.fee))

\* a buyEth that pays out ETH without taking the tokens into the reserve: the
\* faulty variant against which ConstantProduct is tried
buyEthUnpaid(p, revnetTokenAmount) ==
    LET invariant == RMul(p.eth, p.revnetToken)
        newRevnetTokenBalance == RAdd(p.revnetToken, revnetTokenAmount)
        newEthBalance == RDiv(invariant, newRevnetTokenBalance)
        ethAmount == RSub(p.eth, newEthBalance)
        ethFeeAmount == RMul(ethAmount, p.fee)
    IN  [pool |-> [p EXCEPT !.eth = newEthBalance,
                            !.ethFeesAccumulated =
                                RAdd(p.ethFeesAccumulated, ethFeeAmount)],
         ret |-> RSub(ethAmount, ethFeeAmount)]

\* the Pool after buyEth and the amount of ETH it returns
buyEth(p, revnetTokenAmount) ==
    LET invariant == RMul(p.eth, p.revnetToken)
        Charged(newRevnetTokenBalance, newEthBalance, ethAmount, ethFeeAmount) ==
            [pool |-> [p EXCEPT !.revnetToken = newRevnetTokenBalance,
                                !.eth = newEthBalance,
                                !.ethFeesAccumulated =
                                    RAdd(p.ethFeesAccumulated, ethFeeAmount)],
             ret |-> RSub(ethAmount, ethFeeAmount)]
        Paid(newRevnetTokenBalance, newEthBalance, ethAmount) ==
            Charged(newRevnetTokenBalance, newEthBalance, ethAmount,
                    RMul(ethAmount, p.fee))
        Priced(newRevnetTokenBalance, newEthBalance) ==
            Paid(newRevnetTokenBalance, newEthBalance,
                 RSub(p.eth, newEthBalance))
        Taken(newRevnetTokenBalance) ==
            Priced(newRevnetTokenBalance,
                   RDiv(invariant, newRevnetTokenBalance))
    IN  Taken(RAdd(p.revnetToken, revnetTokenAmount))

\* a buyRevnetTokens that prices the whole trade at the spot price, with no
\* slippage: the faulty variant against which ReservesPositive is tried
buyRevnetTokensAtSpot(p, ethAmount) ==
    LET newEthBalance == RAdd(p.eth, ethAmount)
        revnetTokenAmount == RMul(ethAmount, getMarginalPriceOfEth(p))
        newRevnetTokenBalance == RSub(p.revnetToken, revnetTokenAmount)
        revnetTokenFeeAmount == RMul(revnetTokenAmount, p.fee)
    IN  [pool |-> [p EXCEPT !.eth = newEthBalance,
                            !.revnetToken = newRevnetTokenBalance,
                            !.revnetTokenFeesAccumulated =
                                RAdd(p.revnetTokenFeesAccumulated,
                                     revnetTokenFeeAmount)],
         ret |-> RSub(revnetTokenAmount, revnetTokenFeeAmount)]

\* a buyRevnetTokens that leaves the fee in the token reserve as well as in
\* the accumulator: the faulty variant against which Settlement is tried
buyRevnetTokensFeeKept(p, ethAmount) ==
    LET invariant == RMul(p.eth, p.revnetToken)
        newEthBalance == RAdd(p.eth, ethAmount)
        newRevnetTokenBalance == RDiv(invariant, newEthBalance)
        revnetTokenAmount == RSub(p.revnetToken, newRevnetTokenBalance)
        revnetTokenFeeAmount == RMul(revnetTokenAmount, p.fee)
    IN  [pool |-> [p EXCEPT !.eth = newEthBalance,
                            !.revnetToken = RAdd(newRevnetTokenBalance,
                                                 revnetTokenFeeAmount),
                            !.revnetTokenFeesAccumulated =
                                RAdd(p.revnetTokenFeesAccumulated,
                                     revnetTokenFeeAmount)],
         ret |-> RSub(revnetTokenAmount, revnetTokenFeeAmount)]

\* the Pool after buyRevnetTokens and the amount of tokens it returns
buyRevnetTokens(p, ethAmount) ==
    LET invariant == RMul(p.eth, p.revnetToken)
        Charged(newEthBalance, newRevnetTokenBalance, revnetTokenAmount, revnetTokenFeeAmount) ==
            [pool |-> [p EXCEPT !.eth = newEthBalance,
                                !.revnetToken = newRevnetTokenBalance,
                                !.revnetTokenFeesAccumulated =
                                    RAdd(p.revnetTokenFeesAccumulated,
                                         revnetTokenFeeAmount)],
             ret |-> RSub(revnetTokenAmount, revnetTokenFeeAmount)]
        Paid(newEthBalance, newRevnetTokenBalance, revnetTokenAmount) ==
            Charged(newEthBalance, newRevnetTokenBalance, revnetTokenAmount,
                    RMul(revnetTokenAmount, p.fee))
        Priced(newEthBalance, newRevnetTokenBalance) ==
            Paid(newEthBalance, newRevnetTokenBalance,
                 RSub(p.revnetToken, newRevnetTokenBalance))
        Taken(newEthBalance) ==
            Priced(newEthBalance, RDiv(invariant, newEthBalance))
    IN  Taken(RAdd(p.eth, ethAmount))

(***************************************************************************)
(* class Revnet                                                            *)
(***************************************************************************)
newRevnet(priceCeilingIncreasePercentage, priceCeilingIncreaseFrequencyInDays, priceFloorTaxIntensity, premintAmount, boostPercent, boostDurationInDays) ==
    [priceCeilingIncreasePercentage |-> priceCeilingIncreasePercentage,
     priceCeilingIncreaseFrequencyInDays |-> priceCeilingIncreaseFrequencyInDays,
     priceFloorTaxIntensity |-> priceFloorTaxIntensity,
     premintAmount |-> premintAmount,
     boostPercent |-> boostPercent,
     boostDurationInDays |-> boostDurationInDays,
     tokensSentToBoost |-> premintAmount,
     tokenSupply |-> premintAmount,
     ethBalance |-> Zero]

\* an issuance rate that grows with the day: the faulty variant against which
\* UpOnlyCeiling is tried
getTokensCreatedPerEthRising(r, d) ==
    RDiv(One, pow(RSub(One, r.priceCeilingIncreasePercentage),
                  d \div r.priceCeilingIncreaseFrequencyInDays))

\* Math.pow(1 - percentage, Math.floor(day / frequency)); day >= 0 and the
\* frequency is a positive integer
getTokensCreatedPerEth(r, d) ==
    pow(RSub(One, r.priceCeilingIncreasePercentage),
        d \div r.priceCeilingIncreaseFrequencyInDays)

\* a reclaim amount taxed at a flat rate, and one not taxed at all: the faulty
\* variants against which FullExit and FloorTax are tried
getEthReclaimAmountFlat(r, tokensBeingDestroyed) ==
    LET ratioBeingDestroyed == RDiv(tokensBeingDestroyed, r.tokenSupply)
    IN  RMul(RMul(r.ethBalance, ratioBeingDestroyed),
             RSub(One, r.priceFloorTaxIntensity))

getEthReclaimAmountProRata(r, tokensBeingDestroyed) ==
    RMul(r.ethBalance, RDiv(tokensBeingDestroyed, r.tokenSupply))

\* a reclaim amount whose tax grows with the share destroyed: the faulty
\* variant against which ReclaimPerTokenGrows is tried
getEthReclaimAmountTaxedBySize(r, tokensBeingDestroyed) ==
    LET ratioBeingDestroyed == RDiv(tokensBeingDestroyed, r.tokenSupply)
        intensityTerm ==
            RSub(One, RMul(ratioBeingDestroyed, r.priceFloorTaxIntensity))
    IN  RMul(RMul(r.ethBalance, ratioBeingDestroyed), intensityTerm)

getEthReclaimAmount(r, tokensBeingDestroyed) ==
    LET Taxed(ratioBeingDestroyed) ==
            LET intensityTerm ==
                    RSub(RAdd(RMul(ratioBeingDestroyed, r.priceFloorTaxIntensity),
                              One),
                         r.priceFloorTaxIntensity)
            IN  RMul(RMul(r.ethBalance, ratioBeingDestroyed), intensityTerm)
    IN  Taxed(RDiv(tokensBeingDestroyed, r.tokenSupply))

\* an issuance that mints without keeping the ETH paid in: the faulty variant
\* against which RoundTripProRata is tried
createTokensAtCeilingUnbacked(r, ethAmount, d) ==
    LET tokenAmount == RMul(ethAmount, pow(RSub(One, r.priceCeilingIncreasePercentage),
                                       d \div r.priceCeilingIncreaseFrequencyInDays))
    IN  [revnet |-> [r EXCEPT !.tokenSupply = RAdd(r.tokenSupply, tokenAmount)],
         ret |-> IF d < r.boostDurationInDays
                 THEN RMul(tokenAmount, RSub(One, r.boostPercent))
                 ELSE tokenAmount]

\* an issuance whose boost never ends: the faulty variant against which
\* Issuance is tried
createTokensAtCeilingBoosted(r, ethAmount, d) ==
    LET tokenAmount == RMul(ethAmount, pow(RSub(One, r.priceCeilingIncreasePercentage),
                                       d \div r.priceCeilingIncreaseFrequencyInDays))
    IN  [revnet |-> [r EXCEPT !.ethBalance = RAdd(r.ethBalance, ethAmount),
                              !.tokenSupply = RAdd(r.tokenSupply, tokenAmount),
                              !.tokensSentToBoost =
                                  RAdd(r.tokensSentToBoost,
                                       RMul(tokenAmount, r.boostPercent))],
         ret |-> RMul(tokenAmount, RSub(One, r.boostPercent))]

\* an issuance that credits the boost and still returns every token to the
\* payer: the faulty variant against which TokenConservation is tried
createTokensAtCeilingUnskimmed(r, ethAmount, d) ==
    LET tokenAmount == RMul(ethAmount, getTokensCreatedPerEth(r, d))
        r1 == [r EXCEPT !.ethBalance = RAdd(r.ethBalance, ethAmount),
                        !.tokenSupply = RAdd(r.tokenSupply, tokenAmount)]
    IN  IF d < r.boostDurationInDays
        THEN [revnet |-> [r1 EXCEPT !.tokensSentToBoost =
                              RAdd(r.tokensSentToBoost,
                                   RMul(tokenAmount, r.boostPercent))],
              ret |-> tokenAmount]
        ELSE [revnet |-> r1, ret |-> tokenAmount]

\* the Revnet after createTokensAtCeiling and the tokens returned to the payer
createTokensAtCeiling(r, ethAmount, d) ==
    LET Credited(tokenAmount, r1) ==
            IF d < r.boostDurationInDays
            THEN [revnet |-> [r1 EXCEPT !.tokensSentToBoost =
                                  RAdd(r.tokensSentToBoost,
                                       RMul(tokenAmount, r.boostPercent))],
                  ret |-> RMul(tokenAmount, RSub(One, r.boostPercent))]
            ELSE [revnet |-> r1, ret |-> tokenAmount]
        Issued(tokenAmount) ==
            Credited(tokenAmount,
                     [r EXCEPT !.ethBalance = RAdd(r.ethBalance, ethAmount),
                               !.tokenSupply = RAdd(r.tokenSupply, tokenAmount)])
    IN  Issued(RMul(ethAmount, getTokensCreatedPerEth(r, d)))

\* the Revnet after destroyTokensAtFloor and the ETH reclaimed
destroyTokensAtFloor(r, tokenAmount) ==
    LET Reclaimed(ethAmount) ==
            [revnet |-> [r EXCEPT !.tokenSupply = RSub(r.tokenSupply, tokenAmount),
                                  !.ethBalance = RSub(r.ethBalance, ethAmount)],
             ret |-> ethAmount]
    IN  Reclaimed(getEthReclaimAmount(r, tokenAmount))

getPriceCeiling(r, d) == RDiv(One, getTokensCreatedPerEth(r, d))

(***************************************************************************)
(* The interactive chart's floor: the arrow function priceFloor of          *)
(* updatePriceFloor, with the slider's value priceFloorCurve it closes over *)
(* as a fourth argument.                                                    *)
(***************************************************************************)
\* a floor whose weights are exchanged, the share destroyed weighing
\* 1 - priceFloorCurve: the faulty variant against which FloorVariant is tried
priceFloorExchanged(tokensBeingDestroyed, revnetTokenSupply, revnetEthSupply, priceFloorCurve) ==
    RMul(RDiv(RMul(revnetEthSupply, tokensBeingDestroyed), revnetTokenSupply),
         RAdd(priceFloorCurve,
              RDiv(RMul(RSub(One, priceFloorCurve), tokensBeingDestroyed),
                   revnetTokenSupply)))

priceFloor(tokensBeingDestroyed, revnetTokenSupply, revnetEthSupply, priceFloorCurve) ==
    RMul(RDiv(RMul(revnetEthSupply, tokensBeingDestroyed), revnetTokenSupply),
         RAdd(RSub(One, priceFloorCurve),
              RDiv(RMul(priceFloorCurve, tokensBeingDestroyed),
                   revnetTokenSupply)))

(***************************************************************************)
(* class Trader: a purchase record and an optional sale record.  The sale  *)
(* field is <<>> while t.sale is undefined and <<record>> afterwards.      *)
(***************************************************************************)
\* a purchase record dated the day after: the faulty variant against which
\* TradersHavePurchased is tried
recordPurchaseDayAfter(ethSpent, revnetTokensReceived, source, d) ==
    [purchase |-> [ethSpent |-> ethSpent,
                   revnetTokensReceived |-> revnetTokensReceived,
                   source |-> source, day |-> d + 1],
     sale |-> <<>>]

recordPurchase(ethSpent, revnetTokensReceived, source, d) ==
    [purchase |-> [ethSpent |-> ethSpent,
                   revnetTokensReceived |-> revnetTokensReceived,
                   source |-> source, day |-> d],
     sale |-> <<>>]

\* a trader on whom only fulfilled sales are recorded: the faulty variant
\* against which UnfulfilledSale is tried
recordSaleIfFulfilled(t, revnetTokensSpent, ethReceived, source, d) ==
    IF source = "undefined" THEN t
    ELSE [t EXCEPT !.sale = <<[revnetTokensSpent |-> revnetTokensSpent,
                               ethReceived |-> ethReceived,
                               source |-> source, day |-> d]>>]

recordSale(t, revnetTokensSpent, ethReceived, source, d) ==
    [t EXCEPT !.sale = <<[revnetTokensSpent |-> revnetTokensSpent,
                          ethReceived |-> ethReceived,
                          source |-> source, day |-> d]>>]

(***************************************************************************)
(* class Simulator: the two routing functions.  Each yields the Revnet and *)
(* the Pool after the call together with the call's result.                *)
(***************************************************************************)
\* the Pool is deployed and its token reserve exceeds the quoted amount
poolSellsTokens(p, d, ethSpent) ==
    /\ d >= p.dayDeployed
    /\ RGt(p.revnetToken, getRevnetTokenReturnPlusFee(p, ethSpent))

\* getRevnetTokenReturn(ethSpent) > getTokensCreatedPerEth(day) * ethSpent
poolGivesMore(r, p, d, ethSpent) ==
    RGt(getRevnetTokenReturn(p, ethSpent),
        RMul(getTokensCreatedPerEth(r, d), ethSpent))

\* a Pool purchase that skims the boost's share on every day: the faulty
\* variant against which BoostAccumulator is tried
purchaseAtPoolAlwaysSkimmed(r, p, d, ethSpent) ==
    LET b == buyRevnetTokens(p, ethSpent)
        tokensToSendToBoost == RMul(b.ret, r.boostPercent)
    IN  [revnet |-> [r EXCEPT !.tokensSentToBoost =
                         RAdd(r.tokensSentToBoost, tokensToSendToBoost)],
         pool |-> b.pool,
         revnetTokensReceived |-> RSub(b.ret, tokensToSendToBoost),
         source |-> "pool"]

\* a Pool purchase that mints the boost's share instead of taking it from
\* the buyer: the faulty variant against which EitherVenue is tried
purchaseAtPoolBoostMinted(r, p, d, ethSpent) ==
    LET b == buyRevnetTokens(p, ethSpent)
        tokensToSendToBoost ==
            IF d < r.boostDurationInDays THEN RMul(b.ret, r.boostPercent)
            ELSE Zero
    IN  [revnet |-> [r EXCEPT !.tokensSentToBoost =
                         RAdd(r.tokensSentToBoost, tokensToSendToBoost),
                     !.tokenSupply =
                         RAdd(r.tokenSupply, tokensToSendToBoost)],
         pool |-> b.pool,
         revnetTokensReceived |-> b.ret,
         source |-> "pool"]

\* the first branch of purchaseRevnetTokens: the Pool sells, and during the
\* boost the boost's share is taken from what the buyer receives
purchaseAtPool(r, p, d, ethSpent) ==
    LET Skimmed(b, tokensToSendToBoost) ==
            [revnet |-> [r EXCEPT !.tokensSentToBoost =
                             RAdd(r.tokensSentToBoost, tokensToSendToBoost)],
             pool |-> b.pool,
             revnetTokensReceived |-> RSub(b.ret, tokensToSendToBoost),
             source |-> "pool"]
        Received(b) ==
            IF d < r.boostDurationInDays
            THEN Skimmed(b, RMul(b.ret, r.boostPercent))
            ELSE [revnet |-> r, pool |-> b.pool,
                  revnetTokensReceived |-> b.ret, source |-> "pool"]
    IN  Received(buyRevnetTokens(p, ethSpent))

\* the second branch of purchaseRevnetTokens: the Revnet mints
purchaseAtRevnet(r, p, d, ethSpent) ==
    LET Minted(c) ==
            [revnet |-> c.revnet, pool |-> p,
             revnetTokensReceived |-> c.ret, source |-> "revnet"]
    IN  Minted(createTokensAtCeiling(r, ethSpent, d))

\* a router that sends a purchase to the Pool also on a tie: the faulty
\* variant against which PurchaseRouting is tried
purchaseRevnetTokensOnTie(r, p, d, ethSpent) ==
    IF /\ poolSellsTokens(p, d, ethSpent)
       /\ RGe(getRevnetTokenReturn(p, ethSpent),
              RMul(getTokensCreatedPerEth(r, d), ethSpent))
    THEN purchaseAtPool(r, p, d, ethSpent)
    ELSE purchaseAtRevnet(r, p, d, ethSpent)

\* a router whose Pool purchases skim the boost's share on every day: the
\* faulty variant against which BoostAccumulator is tried
purchaseRevnetTokensAlwaysSkimmed(r, p, d, ethSpent) ==
    IF poolSellsTokens(p, d, ethSpent) /\ poolGivesMore(r, p, d, ethSpent)
    THEN purchaseAtPoolAlwaysSkimmed(r, p, d, ethSpent)
    ELSE purchaseAtRevnet(r, p, d, ethSpent)

\* a router whose Pool purchases mint the boost's share: the faulty variant
\* against which EitherVenue is tried
purchaseRevnetTokensBoostMinted(r, p, d, ethSpent) ==
    IF poolSellsTokens(p, d, ethSpent) /\ poolGivesMore(r, p, d, ethSpent)
    THEN purchaseAtPoolBoostMinted(r, p, d, ethSpent)
    ELSE purchaseAtRevnet(r, p, d, ethSpent)

\* purchaseRevnetTokens(ethSpent) on day d
purchaseRevnetTokens(r, p, d, ethSpent) ==
    IF poolSellsTokens(p, d, ethSpent) /\ poolGivesMore(r, p, d, ethSpent)
    THEN purchaseAtPool(r, p, d, ethSpent)
    ELSE purchaseAtRevnet(r, p, d, ethSpent)

\* the Pool is deployed and its ETH reserve exceeds the quoted amount
poolSellsEth(p, d, revnetTokensSpent) ==
    /\ d >= p.dayDeployed
    /\ RGt(p.eth, getEthReturnPlusFee(p, revnetTokensSpent))

\* getEthReturn(revnetTokensSpent) > getEthReclaimAmount(revnetTokensSpent)
poolPaysMore(r, p, revnetTokensSpent) ==
    RGt(getEthReturn(p, revnetTokensSpent),
        getEthReclaimAmount(r, revnetTokensSpent))

\* getEthReclaimAmount(revnetTokensSpent) < this.revnet.ethBalance
reclaimCovered(r, revnetTokensSpent) ==
    RLt(getEthReclaimAmount(r, revnetTokensSpent), r.ethBalance)

\* the three ways out of sellRevnetTokens: the Pool buys, the Revnet
\* redeems, or neither does and ethReceived stays 0 with no source
sellAtPool(r, p, revnetTokensSpent) ==
    LET Swapped(b) ==
            [revnet |-> r, pool |-> b.pool, ethReceived |-> b.ret,
             source |-> "pool"]
    IN  Swapped(buyEth(p, revnetTokensSpent))

sellAtRevnet(r, p, revnetTokensSpent) ==
    LET Redeemed(x) ==
            [revnet |-> x.revnet, pool |-> p, ethReceived |-> x.ret,
             source |-> "revnet"]
    IN  Redeemed(destroyTokensAtFloor(r, revnetTokensSpent))

sellNowhere(r, p) ==
    [revnet |-> r, pool |-> p, ethReceived |-> Zero, source |-> "undefined"]

\* a router that sells at the Pool whatever the day: the faulty variant
\* against which PoolUntouchedBeforeDeployment is tried
sellRevnetTokensAnyDay(r, p, d, revnetTokensSpent) ==
    IF /\ RGt(p.eth, getEthReturnPlusFee(p, revnetTokensSpent))
       /\ poolPaysMore(r, p, revnetTokensSpent)
    THEN sellAtPool(r, p, revnetTokensSpent)
    ELSE IF reclaimCovered(r, revnetTokensSpent)
    THEN sellAtRevnet(r, p, revnetTokensSpent)
    ELSE sellNowhere(r, p)

\* a router that redeems at the Revnet without its solvency guard: the
\* faulty variant against which ReserveNeverNegative is tried
sellRevnetTokensUnguarded(r, p, d, revnetTokensSpent) ==
    IF poolSellsEth(p, d, revnetTokensSpent) /\ poolPaysMore(r, p, revnetTokensSpent)
    THEN sellAtPool(r, p, revnetTokensSpent)
    ELSE sellAtRevnet(r, p, revnetTokensSpent)

\* sellRevnetTokens(revnetTokensSpent) on day d
sellRevnetTokens(r, p, d, revnetTokensSpent) ==
    IF poolSellsEth(p, d, revnetTokensSpent) /\ poolPaysMore(r, p, revnetTokensSpent)
    THEN sellAtPool(r, p, revnetTokensSpent)
    ELSE IF reclaimCovered(r, revnetTokensSpent)
    THEN sellAtRevnet(r, p, revnetTokensSpent)
    ELSE sellNowhere(r, p)

(***************************************************************************)
(* Bounds of the model.                                                    *)
(***************************************************************************)
MaxDays == 2

MaxPoisson == 10

\* the days over which the ceiling is compared
CeilingDays == 4

\* the days for which Math.pow can be asked
PowerDays == Max(MaxDays, CeilingDays)

(***************************************************************************)
(* The samplers.  poissonRandomNumber multiplies draws until the product p *)
(* is no longer above L = Math.exp(-lambda).  The model follows the loop   *)
(* on the generator's states.  p and L are kept as doubles are, by a       *)
(* mantissa of 30 bits and a binary exponent, each between a lower and an  *)
(* upper mantissa that allow for what the model's integer products and     *)
(* the code's doubles round off.  A comparison that these bounds leave     *)
(* open has both outcomes; `samples` remembers the result of a sampler for *)
(* a generator state, and the same state yields the same result again.     *)
(***************************************************************************)
PScale == 1073741824

\* Math.exp(-n) for an integer n in 0..20 is expMantissa(n) / 2^30 /
\* 2^expExponent(n), the mantissa rounded down
expMantissa(n) ==
    <<1073741824, 790015084, 581260615, 855335321, 629320560, 926056384,
      681354210, 1002624824, 737690120, 542762058, 798684010, 587638855,
      864721014, 636226167, 936218107, 688830788, 1013626741, 745784878,
      548717848, 807448062, 594087083>>[n + 1]

expExponent(n) ==
    <<0, 1, 2, 4, 5, 7, 8, 10, 11, 12, 14, 15, 17, 18, 20, 21, 23, 24, 25,
      27, 28>>[n + 1]

\* the integer part of n * (s / 2^32), less at most 3, for n in 0..2^30 and
\* a 32-bit s given by its halves: the products of 15-bit and 16-bit parts
drawTimes(n, s) ==
    LET nh == n \div 32768
        nl == n % 32768
    IN  (nh * s[1]) \div 2 + (nl * s[1]) \div Half + (nh * s[2]) \div (2 * Half)

RECURSIVE scaled(_, _, _)
\* a number within [lo, hi] / 2^30 / 2^e with hi >= 2^29: the binary
\* exponent is raised until the mantissa has 30 bits
scaled(lo, hi, e) ==
    IF hi < PScale \div 2 THEN scaled(2 * lo, 2 * hi, e + 1) ELSE <<lo, hi, e>>

RECURSIVE leading(_, _)
\* a 32-bit s # 0 shifted left until its first bit is set, and the number
\* of places: s / 2^32 is leading(s, 0)[1] / 2^32 / 2^leading(s, 0)[2]
leading(s, places) ==
    IF s[1] >= Half \div 2 THEN <<s, places>>
    ELSE leading(<<2 * s[1] + s[2] \div (Half \div 2), (2 * s[2]) % Half>>,
                 places + 1)

RECURSIVE halved(_, _)
\* the integer part of n / 2^places
halved(n, places) ==
    IF places = 0 \/ n = 0 THEN n ELSE halved(n \div 2, places - 1)

RECURSIVE Small(_)
\* the integer that the digits a stand for, below 2^31
Small(a) == IF a = <<>> THEN 0 ELSE a[1] + Base * Small(Tail(a))

\* the integer part of the fractional part of x * 2^32 by its halves, for a
\* finite x > 0
fraction32(x) ==
    LET t == IF x[3] + 32 >= 0 THEN ShiftLeft(x[4], x[3] + 32)
             ELSE ShiftRight(x[4], -(x[3] + 32))[1]
        low == Limb(t, 1) + Base * Limb(t, 2)
    IN  <<low \div Half + (Limb(t, 3) % 4) * (Half \div 4), low % Half>>

\* the terms of the series of Math.exp(-f) that the model adds up
ExpTerms == 14

RECURSIVE expSeries(_, _, _, _, _, _)
\* bounds of Math.exp(-f) * 2^30 for f * 2^32 in [f32, f32 + 1): the sum of
\* (-f)^n / n! up to n = ExpTerms, [tlo, thi] bounding term n - 1 and
\* [slo, shi] the sum before term n
expSeries(f32, tlo, thi, slo, shi, n) ==
    IF n > ExpTerms THEN <<slo - thi - 1, shi + thi + 1>>
    ELSE LET lo == Max(0, drawTimes(tlo, f32) - 1) \div n
             hi == (drawTimes(thi, f32) + 5) \div n + 1
         IN  IF n % 2 = 1
             THEN expSeries(f32, lo, hi, slo - hi, shi - lo, n + 1)
             ELSE expSeries(f32, lo, hi, slo + lo, shi + hi, n + 1)

\* L = Math.exp(-lambda) as <<lo, hi, e>>: L * 2^30 * 2^e is within
\* [lo, hi].  For lambda <= 0 L is at least 1, which no product of draws
\* exceeds, and `p > NaN` is false as well; Math.exp(-Infinity) is 0.  For
\* 0 < lambda <= 20, L is the product of Math.exp(-floor(lambda)) and the
\* series of the fractional part; for a lambda above, only bounds that are
\* apart
L(lambda) ==
    IF IsNaN(lambda) THEN <<PScale, PScale, 0>>
    ELSE IF ~IsFinite(lambda)
         THEN (IF Negative(lambda) THEN <<PScale, PScale, 0>> ELSE <<0, 0, 0>>)
    ELSE IF IsZero(lambda) \/ Negative(lambda) THEN <<PScale, PScale, 0>>
    ELSE IF lambda[3] >= 0 THEN <<0, expMantissa(20) + 1, expExponent(20)>>
    ELSE LET floored == ShiftRight(lambda[4], -lambda[3])
             whole == IF Bits(floored[1]) > 5 THEN 21 ELSE Small(floored[1])
         IN  IF whole > 20 THEN <<0, expMantissa(20) + 1, expExponent(20)>>
             ELSE IF ~floored[2]
                  THEN <<expMantissa(whole), expMantissa(whole) + 1,
                         expExponent(whole)>>
             ELSE LET s == expSeries(fraction32(lambda),
                                     PScale, PScale, PScale, PScale, 1)
                      flo == <<s[1] \div 16384, (s[1] % 16384) * 4>>
                      fhi == <<s[2] \div 16384, (s[2] % 16384) * 4>>
                  IN  scaled(Max(0, drawTimes(expMantissa(whole), flo) - 1),
                             drawTimes(expMantissa(whole) + 1, fhi) + 10,
                             expExponent(whole))

\* the outcomes of `p > L` for p and L given by bounds as above: one
\* outcome unless the bounds overlap
exceedsL(p, l) ==
    LET d == p[3] - l[3]
        plo == IF d > 0 THEN halved(p[1], d) ELSE p[1]
        phi == IF d > 0 THEN halved(p[2], d) + 1 ELSE p[2]
        llo == IF d < 0 THEN halved(l[1], -d) ELSE l[1]
        lhi == IF d < 0 THEN halved(l[2], -d) + 1 ELSE l[2]
    IN  IF l[2] = 0 \/ plo > lhi THEN {TRUE}
        ELSE IF phi <= llo THEN {FALSE}
        ELSE {TRUE, FALSE}

RECURSIVE poissonLoop(_, _, _, _)
\* the results of the do-while loop when `made` draws have been made, the
\* generator is in state s and p is within the bounds p: the next draw is
\* multiplied in, and the loop ends with `made` unless p > L
poissonLoop(l, s, p, made) ==
    LET drawn == lcgNext(s)
        u == leading(drawn, 0)
        p1 == scaled(Max(0, drawTimes(p[1], u[1]) - 1),
                     Min(PScale, drawTimes(p[2], u[1]) + 5),
                     p[3] + u[2])
    IN  IF drawn = <<0, 0>> THEN {made}
        ELSE {made : b \in {x \in exceedsL(p1, l) : ~x}}
             \cup
             UNION {poissonLoop(l, drawn, p1, made + 1) :
                        b \in {x \in exceedsL(p1, l) : x /\ made < MaxPoisson}}

\* results of poissonRandomNumber(lambda, rand) with rand in state s: a
\* result of n takes n + 1 draws.  A result above MaxPoisson is outside the
\* model
poissonRandomNumber(lambda, s) ==
    IF Known("poisson", s) # {} THEN Known("poisson", s)
    ELSE poissonLoop(L(lambda), s, <<PScale, PScale, 0>>, 0)

\* the doubles Math.exp(x) can be, which is left to the implementation as
\* Math.pow is: 1 for x = 0, and for x = 1 the doubles below and above e,
\* 6121026514868073 * 2^-51 and the next one
expValues(x) ==
    IF IsZero(x) THEN {One}
    ELSE IF x = One
         THEN {Round(0, <<22377, 5672, 31786, 173>>, -51, FALSE),
               Round(0, <<22378, 5672, 31786, 173>>, -51, FALSE)}
    ELSE {}

\* the results an implementation gives for Math.exp(x), as entries of
\* `samples`, where there is more than one it can give
expSamples(x) ==
    IF Cardinality(expValues(x)) > 1
    THEN {{<<"exp", x, y>>} : y \in expValues(x)}
    ELSE {{}}

\* results of logNormRandomNumber(mu, sigma, rand) with rand in state s: two
\* draws, the first one u for Math.sqrt(-2.0 * Math.log(u)).  With sigma = 0
\* the result is Math.exp(0 * z + mu), where z is finite unless u is 0, and
\* Math.exp(0) is 1 and Math.exp(1) is the result `samples` holds for it.
\* Math.exp is not modelled elsewhere: a generator with another mu or with
\* sigma # 0 is outside the model
logNormRandomNumber(mu, sigma, s) ==
    IF Known("lognorm", s) # {} THEN Known("lognorm", s)
    ELSE IF IsNaN(mu) \/ IsNaN(sigma) THEN {NaN}
    ELSE IF IsZero(sigma) /\ lcgNext(s) = <<0, 0>> THEN {NaN}
    ELSE IF IsZero(sigma) /\ IsZero(mu) THEN {One}
    ELSE IF IsZero(sigma) /\ mu = One THEN Known("exp", One) \cap expValues(One)
    ELSE IF IsZero(sigma) /\ ~IsFinite(mu)
         THEN {IF Negative(mu) THEN Zero ELSE Infinity}
    ELSE {}

(***************************************************************************)
(* Configurations: revnetParams, poolParams and simParams.                 *)
(***************************************************************************)
\* Number(value) for the value of an input element, which is a decimal
\* numeral and is kept as <<n, d>>, the fraction n / d it denotes
Number(text) == Q(text[1], text[2])

\* Number(value) for an input that holds a whole number, which the model
\* keeps as an integer
Whole(text) == text[1] \div text[2]

\* the three objects runSimulation() reads from the document d
objectify(d) ==
    [revnetParams |->
         [priceCeilingIncreasePercentage |->
              Number(d.revnetParams.priceCeilingIncreasePercentage),
          priceCeilingIncreaseFrequencyInDays |->
              Whole(d.revnetParams.priceCeilingIncreaseFrequencyInDays),
          priceFloorTaxIntensity |-> Number(d.revnetParams.priceFloorTaxIntensity),
          premintAmount |-> Number(d.revnetParams.premintAmount),
          boostPercent |-> Number(d.revnetParams.boostPercent),
          boostDurationInDays |-> Whole(d.revnetParams.boostDurationInDays)],
     poolParams |->
         [eth |-> Number(d.poolParams.eth),
          revnetToken |-> Number(d.poolParams.revnetToken),
          dayDeployed |-> Whole(d.poolParams.dayDeployed),
          fee |-> Number(d.poolParams.fee)],
     simParams |->
         [daysToCalculate |-> Whole(d.simParams.daysToCalculate),
          randomnessSeed |-> Whole(d.simParams.randomnessSeed),
          dailyPurchasesLambda |-> Number(d.simParams.dailyPurchasesLambda),
          purchaseAmountMean |-> Number(d.simParams.purchaseAmountMean),
          purchaseAmountDeviation |-> Number(d.simParams.purchaseAmountDeviation),
          revnetTokenLiquidityRatio |-> Number(d.simParams.revnetTokenLiquidityRatio),
          ethLiquidityRatio |-> Number(d.simParams.ethLiquidityRatio),
          saleProbability |-> Number(d.simParams.saleProbability),
          minimumDaysHeld |-> Whole(d.simParams.minimumDaysHeld)]]

RevnetInputs ==
    { [priceCeilingIncreasePercentage |-> a[1],
       priceCeilingIncreaseFrequencyInDays |-> a[2],
       priceFloorTaxIntensity |-> a[3],
       premintAmount |-> c[1], boostPercent |-> c[2],
       boostDurationInDays |-> c[3]] :
        a \in {<<<<0, 1>>, <<1, 1>>, <<0, 1>>>>,
               <<<<1, 2>>, <<1, 1>>, <<1, 2>>>>,
               <<<<1, 4>>, <<2, 1>>, <<1, 1>>>>},
        c \in {<<<<0, 1>>, <<0, 1>>, <<0, 1>>>>,
               <<<<2, 1>>, <<1, 2>>, <<1, 1>>>>} }

PoolInputs ==
    { [eth |-> a[1], revnetToken |-> a[2], dayDeployed |-> a[3], fee |-> a[4]] :
        a \in {<<<<0, 1>>, <<0, 1>>, <<0, 1>>, <<0, 1>>>>,
               <<<<1, 1>>, <<4, 1>>, <<0, 1>>, <<0, 1>>>>,
               <<<<1, 1>>, <<3, 1>>, <<1, 1>>, <<1, 2>>>>} }

\* seeds whose runs differ in the days of their purchases and in their sale
\* trials
Seeds == {3, 345, 363, 401}

SimInputs ==
    { [daysToCalculate |-> <<MaxDays, 1>>, randomnessSeed |-> <<seed, 1>>,
       dailyPurchasesLambda |-> <<1, 1>>,
       purchaseAmountMean |-> <<0, 1>>, purchaseAmountDeviation |-> <<0, 1>>,
       revnetTokenLiquidityRatio |-> a[1], ethLiquidityRatio |-> a[2],
       saleProbability |-> a[3], minimumDaysHeld |-> a[4]] :
        seed \in Seeds,
        a \in {<<<<0, 1>>, <<0, 1>>, <<1, 4>>, <<0, 1>>>>,
               <<<<1, 2>>, <<1, 2>>, <<1, 4>>, <<0, 1>>>>,
               <<<<0, 1>>, <<1, 2>>, <<1, 1>>, <<1, 1>>>>,
               <<<<1, 2>>, <<1, 2>>, <<1, 1>>, <<0, 1>>>>,
               <<<<0, 1>>, <<0, 1>>, <<1, 1>>, <<0, 1>>>>} }

\* a Pool that quotes for 1 ETH exactly the token a Revnet with a flat
\* ceiling mints for it
TiedPoolInputs ==
    [eth |-> <<1, 1>>, revnetToken |-> <<2, 1>>, dayDeployed |-> <<0, 1>>,
     fee |-> <<0, 1>>]

\* a Pool that quotes for 1 ETH on day 1, as a real number, exactly the half
\* token a Revnet whose ceiling halves the issuance every day mints for it,
\* through a new token balance of 48 / 9 that no double holds: the quote the
\* code computes is 0.5000000000000002
RoundedPoolInputs ==
    [eth |-> <<8, 1>>, revnetToken |-> <<6, 1>>, dayDeployed |-> <<1, 1>>,
     fee |-> <<1, 4>>]

\* a Revnet with a floor tax of 0.9, which no double holds
RoundedTaxInputs ==
    [priceCeilingIncreasePercentage |-> <<0, 1>>,
     priceCeilingIncreaseFrequencyInDays |-> <<1, 1>>,
     priceFloorTaxIntensity |-> <<9, 10>>,
     premintAmount |-> <<0, 1>>, boostPercent |-> <<0, 1>>,
     boostDurationInDays |-> <<0, 1>>]

\* a Revnet with a boost of 0.1, which no double holds
RoundedBoostInputs ==
    [priceCeilingIncreasePercentage |-> <<1, 2>>,
     priceCeilingIncreaseFrequencyInDays |-> <<1, 1>>,
     priceFloorTaxIntensity |-> <<0, 1>>,
     premintAmount |-> <<0, 1>>, boostPercent |-> <<1, 10>>,
     boostDurationInDays |-> <<1, 1>>]

\* a Revnet whose ceiling rises by 0.1 a day: of the powers of 0.9 no double
\* holds the second or a later one
RoundedCeilingInputs ==
    [priceCeilingIncreasePercentage |-> <<1, 10>>,
     priceCeilingIncreaseFrequencyInDays |-> <<1, 1>>,
     priceFloorTaxIntensity |-> <<0, 1>>,
     premintAmount |-> <<0, 1>>, boostPercent |-> <<0, 1>>,
     boostDurationInDays |-> <<0, 1>>]

\* purchases of Math.exp(1) ETH each
LargerPurchaseInputs ==
    {[s EXCEPT !.purchaseAmountMean = <<1, 1>>] :
        s \in {x \in SimInputs : x.randomnessSeed = <<345, 1>>}}

\* the pages considered
Pages ==
    { [revnetParams |-> r, poolParams |-> p, simParams |-> s] :
        r \in RevnetInputs, p \in PoolInputs, s \in SimInputs }
    \cup
    { [revnetParams |-> r, poolParams |-> TiedPoolInputs, simParams |-> s] :
        r \in {x \in RevnetInputs : /\ x.priceCeilingIncreasePercentage = <<0, 1>>
                                    /\ x.premintAmount = <<0, 1>>},
        s \in {x \in SimInputs : x.randomnessSeed = <<345, 1>>} }
    \cup
    { [revnetParams |-> r, poolParams |-> RoundedPoolInputs, simParams |-> s] :
        r \in {x \in RevnetInputs : x.priceCeilingIncreasePercentage = <<1, 2>>},
        s \in {x \in SimInputs : x.randomnessSeed = <<363, 1>>} }
    \cup
    { [revnetParams |-> RoundedTaxInputs, poolParams |-> p, simParams |-> s] :
        p \in {x \in PoolInputs : x.eth = <<0, 1>>},
        s \in {x \in SimInputs : x.ethLiquidityRatio = <<0, 1>>} }
    \cup
    { [revnetParams |-> RoundedBoostInputs, poolParams |-> p, simParams |-> s] :
        p \in {x \in PoolInputs : x.eth = <<0, 1>>},
        s \in {x \in SimInputs : x.revnetTokenLiquidityRatio = <<0, 1>>} }
    \cup
    { [revnetParams |-> r, poolParams |-> p, simParams |-> s] :
        r \in {x \in RevnetInputs : x.priceCeilingIncreasePercentage = <<1, 2>>},
        p \in {x \in PoolInputs : x.revnetToken = <<4, 1>>},
        s \in LargerPurchaseInputs }
    \cup
    { [revnetParams |-> RoundedCeilingInputs, poolParams |-> p, simParams |-> s] :
        p \in {x \in PoolInputs : x.eth = <<0, 1>>},
        s \in {x \in SimInputs : /\ x.randomnessSeed = <<345, 1>>
                                 /\ x.revnetTokenLiquidityRatio = <<0, 1>>
                                 /\ x.ethLiquidityRatio = <<0, 1>>} }

\* the pages an input event leaves of the page d: the event considered sets
\* daysToCalculate to 0
Edited(d) ==
    {[d EXCEPT !.simParams.daysToCalculate = <<0, 1>>]} \ {d}

(***************************************************************************)
(* Simulator.constructor                                                   *)
(***************************************************************************)
\* a call: the method `op` called for trader number `trader` (0 when the call
\* is not made for a trader) with argument `arg` on day `d`, its result, and
\* the Revnet and the Pool before the call and at its return
Op(op, trader, arg, ret, source, d, r0, p0, r1, p1) ==
    [op |-> op, trader |-> trader, arg |-> arg, ret |-> ret, source |-> source,
     day |-> d, preRevnet |-> r0, prePool |-> p0, postRevnet |-> r1,
     postPool |-> p1]

\* a constructor that leaves the Pool's tokens out of the supply: the faulty
\* variant against which SupplyCoversBoost is tried
SimulatorPoolUncounted(c) ==
    LET rp == c.revnetParams
        pp == c.poolParams
    IN  [revnet |-> newRevnet(rp.priceCeilingIncreasePercentage,
                              rp.priceCeilingIncreaseFrequencyInDays,
                              rp.priceFloorTaxIntensity, rp.premintAmount,
                              rp.boostPercent, rp.boostDurationInDays),
         pool |-> newPool(pp.eth, pp.revnetToken, pp.dayDeployed, pp.fee),
         traders |-> <<>>,
         simulationResults |-> <<>>,
         day |-> 0]

\* the fields of new Simulator(revnetParams, poolParams, simParams)
Simulator(c) ==
    LET rp == c.revnetParams
        pp == c.poolParams
        r0 == newRevnet(rp.priceCeilingIncreasePercentage,
                        rp.priceCeilingIncreaseFrequencyInDays,
                        rp.priceFloorTaxIntensity, rp.premintAmount,
                        rp.boostPercent, rp.boostDurationInDays)
    IN  [revnet |-> IF RGt(pp.revnetToken, Zero)
                    THEN [r0 EXCEPT !.tokenSupply = RAdd(r0.tokenSupply, pp.revnetToken)]
                    ELSE r0,
         pool |-> newPool(pp.eth, pp.revnetToken, pp.dayDeployed, pp.fee),
         traders |-> <<>>,
         simulationResults |-> <<>>,
         day |-> 0]

Construct(c) ==
    LET sim == Simulator(c)
    IN  /\ revnet = sim.revnet
        /\ pool = sim.pool
        /\ traders = sim.traders
        /\ simulationResults = sim.simulationResults
        /\ day = sim.day

\* the Simulator built from cfg, the control at `position`, nothing run yet
Fresh(position) ==
    /\ Construct(cfg)
    /\ pc = position
    /\ i = 0
    /\ k = 0
    /\ dailyPurchases = <<>>
    /\ dailySales = <<>>
    /\ poissonRand = <<0, 0>>
    /\ buyRand = <<0, 0>>
    /\ sellRand = <<0, 0>>
    /\ calls = <<>>
    /\ samples \in
           {p \cup x :
               p \in powSamples(inexactPowers(
                         RSub(One, cfg.revnetParams.priceCeilingIncreasePercentage),
                         cfg.revnetParams.priceCeilingIncreaseFrequencyInDays,
                         PowerDays)),
               x \in expSamples(cfg.simParams.purchaseAmountMean)}
    /\ run = 1
    /\ returned = <<>>

\* the page is loaded and render() calls runSimulation(), which reads it
Init ==
    /\ page \in Pages
    /\ cfg = objectify(page)
    /\ Fresh("start")

(***************************************************************************)
(* Simulator.simulate, one action per step of its loops.                   *)
(***************************************************************************)
\* three generators on one seed: the faulty variant against which
\* RandomStreams is tried
oneSeedGenerators(seed) ==
    [poissonRand |-> newLCG(seed), buyRand |-> newLCG(seed),
     sellRand |-> newLCG(seed)]

\* generators that a later run takes over from the run before it: the faulty
\* variant against which Determinism is tried
carriedGenerators(seed) ==
    IF run > 1
    THEN [poissonRand |-> poissonRand, buyRand |-> buyRand, sellRand |-> sellRand]
    ELSE [poissonRand |-> newLCG(seed + 2), buyRand |-> newLCG(seed),
          sellRand |-> newLCG(seed + 1)]

\* the three generators simulate() creates
simulateGenerators(seed) ==
    [poissonRand |-> newLCG(seed + 2), buyRand |-> newLCG(seed),
     sellRand |-> newLCG(seed + 1)]

\* a loop test that admits one day too many: the faulty variant against
\* which SnapshotSequence is tried
LoopEntryInclusive(d) == IF d <= cfg.simParams.daysToCalculate THEN "purchases" ELSE "done"

\* the position after the test `this.day < this.daysToCalculate` on day d
LoopEntry(d) == IF d < cfg.simParams.daysToCalculate THEN "purchases" ELSE "done"

\* simulate() begins: the generators are created and the day loop is entered
StartSimulate ==
    /\ pc = "start"
    /\ LET g == simulateGenerators(cfg.simParams.randomnessSeed)
       IN  /\ poissonRand' = g.poissonRand
           /\ buyRand' = g.buyRand
           /\ sellRand' = g.sellRand
    /\ pc' = LoopEntry(day)
    /\ i' = 0
    /\ dailyPurchases' = <<>>
    /\ UNCHANGED <<page, cfg, revnet, pool, day, traders, simulationResults, k,
                   dailySales, calls, samples, run, returned>>

\* one iteration of the purchase loop: the condition draws a Poisson number n
\* with i < n, then the body makes one purchase
Purchase ==
    /\ pc = "purchases"
    /\ \E n \in poissonRandomNumber(cfg.simParams.dailyPurchasesLambda, poissonRand) :
        /\ i < n
        /\ poissonRand' = lcgAdvance(poissonRand, n + 1)
        /\ \E ethSpent \in logNormRandomNumber(cfg.simParams.purchaseAmountMean,
                                               cfg.simParams.purchaseAmountDeviation,
                                               buyRand) :
            LET Purchased(res) ==
                    /\ buyRand' = lcgAdvance(buyRand, 2)
                    /\ samples' = samples \cup {<<"poisson", poissonRand, n>>,
                                                <<"lognorm", buyRand, ethSpent>>}
                    /\ revnet' = res.revnet
                    /\ pool' = IF day >= res.pool.dayDeployed
                               THEN provideRevnetTokens(res.pool,
                                        RMul(cfg.simParams.revnetTokenLiquidityRatio,
                                             res.revnetTokensReceived))
                               ELSE res.pool
                    /\ traders' = Append(traders,
                            recordPurchase(ethSpent, res.revnetTokensReceived,
                                           res.source, day))
                    /\ dailyPurchases' = Append(dailyPurchases,
                            [ethSpent |-> ethSpent,
                             revnetTokensReceived |-> res.revnetTokensReceived,
                             source |-> res.source])
                    /\ calls' = Append(calls,
                            Op("purchaseRevnetTokens", Len(traders) + 1, ethSpent,
                               res.revnetTokensReceived, res.source, day,
                               revnet, pool, res.revnet, res.pool))
            IN  Purchased(purchaseRevnetTokens(revnet, pool, day, ethSpent))
    /\ i' = i + 1
    /\ UNCHANGED <<page, cfg, day, simulationResults, pc, k, dailySales, sellRand,
                   run, returned>>

\* the purchase loop ends: the condition draws a Poisson number n with i >= n
\* and the forEach over the traders begins
PurchasesDone ==
    /\ pc = "purchases"
    /\ \E n \in poissonRandomNumber(cfg.simParams.dailyPurchasesLambda, poissonRand) :
        /\ ~(i < n)
        /\ poissonRand' = lcgAdvance(poissonRand, n + 1)
        /\ samples' = samples \cup {<<"poisson", poissonRand, n>>}
    /\ pc' = "sales"
    /\ k' = 1
    /\ dailySales' = <<>>
    /\ UNCHANGED <<page, cfg, revnet, pool, day, traders, simulationResults, i,
                   dailyPurchases, buyRand, sellRand, calls, run, returned>>

\* a callback without its early returns: the faulty variants against which
\* SellsOnce and MinimumHoldingGate are tried
neverHasSale(t) == FALSE

neverHeldTooShort(t, d) == FALSE

\* a holding gate that also holds back the last day: the faulty variant
\* against which DayOrder is tried
heldTooShortInclusive(t, d) == d <= t.purchase.day + cfg.simParams.minimumDaysHeld

\* the two early returns of the forEach callback: `if (t.sale) return` and
\* `if (this.day < t.purchase.day + this.minimumDaysHeld) return`
hasSale(t) == t.sale # <<>>

heldTooShort(t, d) == d < t.purchase.day + cfg.simParams.minimumDaysHeld

\* the forEach callback returns early: the trader has sold or has not held
\* long enough
TraderSkip ==
    /\ pc = "sales"
    /\ k <= Len(traders)
    /\ hasSale(traders[k]) \/ heldTooShort(traders[k], day)
    /\ k' = k + 1
    /\ UNCHANGED <<page, cfg, revnet, pool, day, traders, simulationResults, pc, i,
                   dailyPurchases, dailySales, poissonRand, buyRand, sellRand,
                   calls, samples, run, returned>>

\* the forEach callback draws sellRand() >= saleProbability: no sale
TraderKeeps ==
    /\ pc = "sales"
    /\ k <= Len(traders)
    /\ ~hasSale(traders[k])
    /\ ~heldTooShort(traders[k], day)
    /\ sellRand' = lcgNext(sellRand)
    /\ ~RLt(lcgValue(sellRand'), cfg.simParams.saleProbability)
    /\ k' = k + 1
    /\ UNCHANGED <<page, cfg, revnet, pool, day, traders, simulationResults, pc, i,
                   dailyPurchases, dailySales, poissonRand, buyRand, calls,
                   samples, run, returned>>

\* the forEach callback draws sellRand() < saleProbability: the trader sells
TraderSells ==
    /\ pc = "sales"
    /\ k <= Len(traders)
    /\ ~hasSale(traders[k])
    /\ ~heldTooShort(traders[k], day)
    /\ sellRand' = lcgNext(sellRand)
    /\ RLt(lcgValue(sellRand'), cfg.simParams.saleProbability)
    /\ LET Spent(revnetTokensSpent, res) ==
               /\ traders' = [traders EXCEPT ![k] =
                      recordSale(traders[k], revnetTokensSpent, res.ethReceived,
                                 res.source, day)]
               /\ revnet' = res.revnet
               /\ pool' = IF day >= res.pool.dayDeployed
                          THEN provideEth(res.pool,
                                   RMul(cfg.simParams.ethLiquidityRatio,
                                        res.ethReceived))
                          ELSE res.pool
               /\ dailySales' = Append(dailySales,
                      [revnetTokensSpent |-> revnetTokensSpent,
                       ethReceived |-> res.ethReceived, source |-> res.source])
               /\ calls' = Append(calls,
                      Op("sellRevnetTokens", k, revnetTokensSpent, res.ethReceived,
                         res.source, day, revnet, pool, res.revnet, res.pool))
           Offered(revnetTokensSpent) ==
               Spent(revnetTokensSpent,
                     sellRevnetTokens(revnet, pool, day, revnetTokensSpent))
       IN  Offered(RMul(traders[k].purchase.revnetTokensReceived,
                        RSub(One, cfg.simParams.revnetTokenLiquidityRatio)))
    /\ k' = k + 1
    /\ UNCHANGED <<page, cfg, day, simulationResults, pc, i, dailyPurchases,
                   poissonRand, buyRand, samples, run, returned>>

\* this.revnet.getEthReclaimAmount(100) / 100 and the same for 500, of the
\* Revnet r
hundredTokenReclaimAmountPerToken(r) ==
    RDiv(getEthReclaimAmount(r, R(100)), R(100))

fiveHundredTokenReclaimAmountPerToken(r) ==
    RDiv(getEthReclaimAmount(r, R(500)), R(500))

\* the record pushed onto simulationResults
Snapshot ==
    [day |-> day,
     ethBalance |-> revnet.ethBalance,
     tokenSupply |-> revnet.tokenSupply,
     priceCeiling |-> getPriceCeiling(revnet, day),
     priceFloor |-> getEthReclaimAmount(revnet,
                        IF RGt(revnet.tokenSupply, One) THEN One
                        ELSE revnet.tokenSupply),
     tokensSentToBoost |-> revnet.tokensSentToBoost,
     poolEthBalance |-> pool.eth,
     poolRevnetTokenBalance |-> pool.revnetToken,
     poolRevnetTokenPrice |-> getMarginalPriceOfRevnetToken(pool),
     oneTokenReclaimAmount |-> getEthReclaimAmount(revnet, One),
     hundredTokenReclaimAmountPerToken |->
         hundredTokenReclaimAmountPerToken(revnet),
     fiveHundredTokenReclaimAmountPerToken |->
         fiveHundredTokenReclaimAmountPerToken(revnet),
     ethFeesAccumulated |-> pool.ethFeesAccumulated,
     revnetTokenFeesAccumulated |-> pool.revnetTokenFeesAccumulated,
     dailyPurchases |-> dailyPurchases,
     dailySales |-> dailySales]

\* the forEach is over: the day's results are pushed, the day is advanced and
\* the loop condition is tested
RecordResults ==
    /\ pc = "sales"
    /\ k > Len(traders)
    /\ simulationResults' = Append(simulationResults, Snapshot)
    /\ day' = day + 1
    /\ pc' = LoopEntry(day + 1)
    /\ i' = 0
    /\ dailyPurchases' = <<>>
    /\ UNCHANGED <<page, cfg, revnet, pool, traders, k, dailySales, poissonRand,
                   buyRand, sellRand, calls, samples, run, returned>>

Next ==
    \/ StartSimulate
    \/ Purchase
    \/ PurchasesDone
    \/ TraderSkip
    \/ TraderKeeps
    \/ TraderSells
    \/ RecordResults

Spec == Init /\ [][Next]_vars

\* simulate() is one synchronous call: once entered, it is run to its return
\* without yielding, so a step that can be taken is taken.  This is weak
\* fairness of Next, written out: a behaviour takes infinitely many steps of
\* Next or is infinitely often where no step can be taken, which is at the
\* return of simulate() only
SpecFair == Spec /\ ([]<><<Next>>_vars \/ []<>(pc = "done"))

(***************************************************************************)
(* render() runs again in the same process, on the input event of an input *)
(* element, whose value the event has changed, or on the render event of   *)
(* the document, which leaves the page as it is.  runSimulation() reads    *)
(* the page anew, a new Simulator is built, and simulate() creates its     *)
(* generators anew.  The generators of the finished call are locals of it  *)
(* and are dead; the samplers are the same functions as before.            *)
(***************************************************************************)
Rerun ==
    LET Built(sim) ==
            /\ revnet' = sim.revnet
            /\ pool' = sim.pool
            /\ traders' = sim.traders
            /\ simulationResults' = sim.simulationResults
            /\ day' = sim.day
        Read(c) == cfg' = c /\ Built(Simulator(c))
    IN  /\ pc = "done"
        /\ returned' = [read |-> cfg, value |-> <<simulationResults, traders>>]
        /\ \E d \in {page} \cup Edited(page) :
            /\ page' = d
            /\ Read(objectify(d))
        /\ pc' = "start"
        /\ run' = 2
        /\ i' = 0
        /\ k' = 0
        /\ dailyPurchases' = <<>>
        /\ dailySales' = <<>>
        /\ calls' = <<>>
        /\ UNCHANGED <<poissonRand, buyRand, sellRand, samples>>

NextRerun ==
    \/ Next
    \/ Rerun

SpecRerun == Init /\ [][NextRerun]_vars

(***************************************************************************)
(* The classes on their own: a Revnet, and a Pool, called directly with    *)
(* arguments from bounded sets.  Each call is appended to `calls`.         *)
(***************************************************************************)
MaxCalls == 3

EthAmounts == {Zero, R(1), R(2)}

TokenAmounts == {Zero, Q(1, 2)}

Last == calls[Len(calls)]

NoSimParams ==
    [daysToCalculate |-> 0, randomnessSeed |-> 0, dailyPurchasesLambda |-> Zero,
     purchaseAmountMean |-> Zero, purchaseAmountDeviation |-> Zero,
     revnetTokenLiquidityRatio |-> Zero, ethLiquidityRatio |-> Zero,
     saleProbability |-> Zero, minimumDaysHeld |-> 0]

\* a tax intensity that the addition of 1 loses: 2^-60
SmallTax == Round(0, <<1>>, -60, FALSE)

\* Revnets of tax intensity 0, 2^-60, 0.9 (which no double holds) and 1, with
\* and without a rising ceiling, a premint, a boost and Pool tokens counted
\* in the supply
RevnetConfigs ==
    { [revnetParams |->
           [priceCeilingIncreasePercentage |-> x[1],
            priceCeilingIncreaseFrequencyInDays |-> x[2],
            priceFloorTaxIntensity |-> x[3],
            premintAmount |-> x[4], boostPercent |-> x[5],
            boostDurationInDays |-> x[6]],
       poolParams |-> [eth |-> x[7], revnetToken |-> x[8], dayDeployed |-> 0,
                       fee |-> Zero],
       simParams |-> NoSimParams] :
        x \in {<<Q(1, 2), 1, Zero, Zero, Zero, 0, Zero, Zero>>,
               <<Zero, 1, Zero, R(2), Q(1, 2), 1, Zero, Zero>>,
               <<Q(1, 2), 2, SmallTax, Zero, Zero, 0, R(1), R(4)>>,
               <<Zero, 1, Q(9, 10), Zero, Q(1, 10), 1, Zero, R(3)>>,
               <<Q(1, 2), 1, One, R(2), Q(1, 2), 1, R(1), R(4)>>} }

InitRevnet ==
    /\ page = <<>>
    /\ cfg \in RevnetConfigs
    /\ Fresh("revnet")

\* revnet.createTokensAtCeiling(ethAmount, day) with ethAmount > 0
RevnetCreate ==
    /\ pc = "revnet"
    /\ Len(calls) < MaxCalls
    /\ \E ethAmount \in EthAmounts \ {Zero} :
        LET c == createTokensAtCeiling(revnet, ethAmount, day)
        IN  /\ revnet' = c.revnet
            /\ calls' = Append(calls,
                   Op("createTokensAtCeiling", 0, ethAmount, c.ret, "revnet",
                      day, revnet, pool, c.revnet, pool))
    /\ UNCHANGED <<page, cfg, pool, day, traders, simulationResults, pc, i, k,
                   dailyPurchases, dailySales, poissonRand, buyRand, sellRand,
                   samples, run, returned>>

\* the amounts of tokens a holder can hand in, no more than exist: the tokens
\* the preceding call returned, which are the whole supply of a Revnet that
\* had none before, and half a token otherwise
Redeemable ==
    { t \in (IF calls # <<>> /\ Last.op = "createTokensAtCeiling"
             THEN {Last.ret} ELSE {Q(1, 2)}) :
        RGt(revnet.tokenSupply, Zero) /\ RLe(t, revnet.tokenSupply) }

\* revnet.destroyTokensAtFloor(tokenAmount)
RevnetDestroy ==
    /\ pc = "revnet"
    /\ Len(calls) < MaxCalls
    /\ \E tokenAmount \in Redeemable :
        LET x == destroyTokensAtFloor(revnet, tokenAmount)
        IN  /\ revnet' = x.revnet
            /\ calls' = Append(calls,
                   Op("destroyTokensAtFloor", 0, tokenAmount, x.ret, "revnet",
                      day, revnet, pool, x.revnet, pool))
    /\ UNCHANGED <<page, cfg, pool, day, traders, simulationResults, pc, i, k,
                   dailyPurchases, dailySales, poissonRand, buyRand, sellRand,
                   samples, run, returned>>

\* the days on which the Revnet is called
RevnetDays == {0, 1}

\* a day passes before a call
RevnetDay ==
    /\ pc = "revnet"
    /\ Len(calls) < MaxCalls
    /\ day + 1 \in RevnetDays
    /\ day' = day + 1
    /\ UNCHANGED <<page, cfg, revnet, pool, traders, simulationResults, pc, i, k,
                   dailyPurchases, dailySales, poissonRand, buyRand, sellRand,
                   calls, samples, run, returned>>

NextRevnet ==
    \/ RevnetCreate
    \/ RevnetDestroy
    \/ RevnetDay

SpecRevnet == InitRevnet /\ [][NextRevnet]_vars

\* Pools with both reserves positive, without a fee and with a fee of 1/2,
\* of 0.1, which no double holds, and of 1
PoolConfigs ==
    { [revnetParams |->
           [priceCeilingIncreasePercentage |-> Zero,
            priceCeilingIncreaseFrequencyInDays |-> 1,
            priceFloorTaxIntensity |-> Zero, premintAmount |-> Zero,
            boostPercent |-> Zero, boostDurationInDays |-> 0],
       poolParams |-> [eth |-> p[1], revnetToken |-> p[2], dayDeployed |-> 0,
                       fee |-> p[3]],
       simParams |-> NoSimParams] :
        p \in {<<R(1), R(4), Zero>>, <<R(1), R(3), Q(1, 2)>>,
               <<R(2), R(2), Q(1, 10)>>, <<Q(1, 2), R(1), One>>} }

InitPool ==
    /\ page = <<>>
    /\ cfg \in PoolConfigs
    /\ Fresh("pool")

\* the call `op` on the Pool, which leaves the Pool b.pool and returns b.ret
PoolCall(op, arg, b) ==
    /\ pool' = b.pool
    /\ calls' = Append(calls,
           Op(op, 0, arg, b.ret, "pool", day, revnet, pool, revnet, b.pool))
    /\ UNCHANGED <<page, cfg, revnet, day, traders, simulationResults, pc, i, k,
                   dailyPurchases, dailySales, poissonRand, buyRand, sellRand,
                   samples, run, returned>>

\* pool.buyEth(revnetTokenAmount) with revnetTokenAmount >= 0
PoolBuyEth ==
    /\ pc = "pool"
    /\ Len(calls) < MaxCalls
    /\ \E x \in TokenAmounts : PoolCall("buyEth", x, buyEth(pool, x))

\* pool.buyRevnetTokens(ethAmount) with ethAmount >= 0
PoolBuyRevnetTokens ==
    /\ pc = "pool"
    /\ Len(calls) < MaxCalls
    /\ \E x \in EthAmounts :
        PoolCall("buyRevnetTokens", x, buyRevnetTokens(pool, x))

\* pool.provideEth(amount); the method returns nothing
PoolProvideEth ==
    /\ pc = "pool"
    /\ Len(calls) < MaxCalls
    /\ \E x \in {R(1)} :
        PoolCall("provideEth", x, [pool |-> provideEth(pool, x), ret |-> Zero])

\* pool.provideRevnetTokens(amount); the method returns nothing
PoolProvideRevnetTokens ==
    /\ pc = "pool"
    /\ Len(calls) < MaxCalls
    /\ \E x \in TokenAmounts \ {Zero} :
        PoolCall("provideRevnetTokens", x,
                 [pool |-> provideRevnetTokens(pool, x), ret |-> Zero])

NextPool ==
    \/ PoolBuyEth
    \/ PoolBuyRevnetTokens
    \/ PoolProvideEth
    \/ PoolProvideRevnetTokens

SpecPool == InitPool /\ [][NextPool]_vars

(***************************************************************************)
(* Equality up to rounding.  An operation on doubles rounds its result by  *)
(* at most 2^-53 of it, so that two amounts the code computes by a few     *)
(* operations each, equal as real numbers, differ by a few times that.     *)
(***************************************************************************)
\* 2^-48
Epsilon == Round(0, <<1>>, -48, FALSE)

RAbs(x) == IF Negative(x) THEN RNeg(x) ELSE x

\* x = y up to Epsilon of the size `scale`
Near(x, y, scale) ==
    x = y \/ RLe(RAbs(RSub(x, y)), RMul(Epsilon, RAbs(scale)))

\* x >= y up to Epsilon of the size `scale`
NotBelow(x, y, scale) ==
    RGe(x, y) \/ RGe(RSub(x, y), RNeg(RMul(Epsilon, RAbs(scale))))

(***************************************************************************)
(* Properties of a simulation run.                                         *)
(***************************************************************************)
Sold == {t \in 1..Len(traders) : traders[t].sale # <<>>}

\* the calls of sellRevnetTokens made for trader number t
SalesOf(t) ==
    {j \in 1..Len(calls) :
        calls[j].op = "sellRevnetTokens" /\ calls[j].trader = t}

\* C1: minimum-holding gate.  In any run of simulate(), every trader with a
\* sale record has sale.day >= purchase.day + minimumDaysHeld, whatever the
\* sale-probability draws are.
MinimumHoldingGate ==
    \A t \in Sold :
        traders[t].sale[1].day >=
            traders[t].purchase.day + cfg.simParams.minimumDaysHeld

\* a trader was held back on the day of the purchase and sold on the first
\* day the gate allowed
MinimumHoldingGateWitness ==
    \E t \in Sold :
        /\ cfg.simParams.minimumDaysHeld > 0
        /\ traders[t].sale[1].day =
               traders[t].purchase.day + cfg.simParams.minimumDaysHeld

\* C2: a trader sells at most once and never partially.  sellRevnetTokens is
\* called at most once for a trader, exactly when the trader has a sale
\* record; the amount offered is purchase.revnetTokensReceived *
\* (1 - revnetTokenLiquidityRatio); and a sale record, fulfilled or not, is
\* never changed afterwards.
SellsOnce ==
    /\ [](\A t \in 1..Len(traders) :
            /\ Cardinality(SalesOf(t)) <= 1
            /\ (t \in Sold) <=> (SalesOf(t) # {})
            /\ \A j \in SalesOf(t) :
                /\ calls[j].arg =
                       RMul(traders[t].purchase.revnetTokensReceived,
                            RSub(One, cfg.simParams.revnetTokenLiquidityRatio))
                /\ traders[t].sale[1].revnetTokensSpent = calls[j].arg)
    /\ [][\A t \in Sold :
            /\ t <= Len(traders')
            /\ traders'[t].sale = traders[t].sale]_vars

\* a trader whose sale was not fulfilled is passed over on a later day
SellsOnceWitness ==
    \E t \in Sold :
        /\ traders[t].sale[1].source = "undefined"
        /\ traders[t].sale[1].day < day
        /\ pc = "sales"
        /\ k > t

\* C3: determinism.  A run started after another in the same process, with
\* the same parameters and the same randomnessSeed, returns the same
\* snapshot sequence and the same trader list as the one before it.
Determinism ==
    (run > 1 /\ pc = "done" /\ cfg = returned.read)
        => <<simulationResults, traders>> = returned.value

\* a second run has finished, with a purchase at each venue and a sale in it
DeterminismWitness ==
    /\ run > 1
    /\ pc = "done"
    /\ cfg = returned.read
    /\ Sold # {}
    /\ \E x, y \in 1..Len(traders) :
        traders[x].purchase.source = "pool" /\ traders[y].purchase.source = "revnet"

\* C5 as stated: in every reachable state of a simulation run, tokenSupply >=
\* tokensSentToBoost.
SupplyCoversBoost == RGe(revnet.tokenSupply, revnet.tokensSentToBoost)

\* the largest of the Numbers of a set
Largest(S) == CHOOSE x \in S : \A y \in S : RLe(y, x)

\* the largest tokenSupply the run has had
LargestSupply ==
    Largest({Simulator(cfg).revnet.tokenSupply}
                \cup {calls[j].postRevnet.tokenSupply : j \in 1..Len(calls)})

\* what the additions and subtractions of a run may have rounded off so far:
\* Epsilon of the largest supply for the constructor and for each call made
RoundedOff == RMul(R(1 + Len(calls)), LargestSupply)

\* C5: tokenSupply >= tokensSentToBoost up to rounding.  The two are sums
\* and differences of the same amounts, added and subtracted in different
\* orders; tokenSupply is not below tokensSentToBoost by more than Epsilon of
\* the largest supply the run has had, for the constructor and each call made.
SupplyCoversBoostRounded ==
    NotBelow(revnet.tokenSupply, revnet.tokensSentToBoost, RoundedOff)

\* the boost has received tokens bought from the Pool, which the supply did
\* not grow by, and a trader has sold tokens since
SupplyCoversBoostWitness ==
    \E j \in 1..Len(calls) :
        /\ calls[j].op = "purchaseRevnetTokens"
        /\ calls[j].source = "pool"
        /\ RGt(calls[j].postRevnet.tokensSentToBoost,
               calls[j].preRevnet.tokensSentToBoost)
        /\ calls[j].postRevnet.tokenSupply = calls[j].preRevnet.tokenSupply
        /\ \E n \in (j + 1)..Len(calls) :
            /\ calls[n].op = "sellRevnetTokens"
            /\ calls[n].source # "undefined"

\* C6: the Revnet's ethBalance is never negative in a reachable state of a
\* simulation run, and destroyTokensAtFloor is reached only for an amount
\* whose reclaim is below the balance, so that no redemption pays more than
\* the balance.
ReserveNeverNegative ==
    /\ RGe(revnet.ethBalance, Zero)
    /\ \A j \in 1..Len(calls) :
        (calls[j].op = "sellRevnetTokens" /\ calls[j].source = "revnet") =>
            /\ RLt(calls[j].ret, calls[j].preRevnet.ethBalance)
            /\ RGe(calls[j].postRevnet.ethBalance, Zero)

\* one sale was refused by the solvency guard and another was redeemed
ReserveNeverNegativeWitness ==
    /\ \E j \in 1..Len(calls) :
        /\ calls[j].op = "sellRevnetTokens"
        /\ calls[j].source = "undefined"
        /\ RGt(calls[j].arg, Zero)
        /\ RGt(calls[j].preRevnet.ethBalance, Zero)
    /\ \E j \in 1..Len(calls) :
        /\ calls[j].op = "sellRevnetTokens"
        /\ calls[j].source = "revnet"

\* C10: up-only ceiling.  For a percentage in [0,1) and a positive integer
\* frequency, getTokensCreatedPerEth(day) is non-increasing in day (from each
\* day to the next, and so over any number of days),
\* getPriceCeiling(day) is 1 / getTokensCreatedPerEth(day) and non-decreasing
\* in day, and the priceCeiling of consecutive snapshots never decreases.
\* The ceiling of a day depends on the percentage and the frequency alone,
\* which no step changes: the days are compared when the run starts.
UpOnlyCeiling ==
    /\ revnet.priceCeilingIncreasePercentage
           = cfg.revnetParams.priceCeilingIncreasePercentage
    /\ revnet.priceCeilingIncreaseFrequencyInDays
           = cfg.revnetParams.priceCeilingIncreaseFrequencyInDays
    /\ pc = "start" =>
        LET ceiling == { <<d, getTokensCreatedPerEth(revnet, d), getPriceCeiling(revnet, d)>> :
                            d \in 0..CeilingDays }
        IN  /\ \A a, b \in ceiling :
                b[1] = a[1] + 1 => RLe(b[2], a[2]) /\ RLe(a[3], b[3])
            /\ \A a \in ceiling : a[3] = RDiv(One, a[2])
    /\ \A n \in 1..(Len(simulationResults) - 1) :
        RLe(simulationResults[n].priceCeiling,
            simulationResults[n + 1].priceCeiling)

\* two consecutive snapshots between which the ceiling rose
UpOnlyCeilingWitness ==
    /\ Len(simulationResults) >= 2
    /\ RLt(simulationResults[1].priceCeiling, simulationResults[2].priceCeiling)

(***************************************************************************)
(* Properties of the Pool.                                                 *)
(***************************************************************************)
Product(p) == RMul(p.eth, p.revnetToken)

Trades ==
    {j \in 1..Len(calls) :
        /\ calls[j].op \in {"buyEth", "buyRevnetTokens"}
        /\ RGt(calls[j].prePool.eth, Zero)
        /\ RGt(calls[j].prePool.revnetToken, Zero)
        /\ RGe(calls[j].arg, Zero)}

\* C4 as stated: constant product.  For a Pool with both reserves > 0, a
\* trade (buyEth or buyRevnetTokens) with a non-negative input leaves
\* eth * revnetToken non-decreasing, and with fee = 0 exactly as it was.
ConstantProduct ==
    \A j \in Trades :
        /\ RGe(Product(calls[j].postPool), Product(calls[j].prePool))
        /\ calls[j].prePool.fee = Zero =>
               Product(calls[j].postPool) = Product(calls[j].prePool)

\* C4: constant product up to rounding.  A trade leaves eth * revnetToken
\* as it was up to Epsilon of it, whatever the fee: the fee is kept out of
\* the reserves.
ConstantProductRounded ==
    \A j \in Trades :
        Near(Product(calls[j].postPool), Product(calls[j].prePool),
             Product(calls[j].prePool))

\* a trade in each direction has moved the reserves of a Pool, one of them
\* to a product that is not the product before it
ConstantProductWitness ==
    /\ \E j \in Trades :
        /\ calls[j].op = "buyEth"
        /\ RLt(calls[j].postPool.eth, calls[j].prePool.eth)
    /\ \E j \in Trades :
        /\ calls[j].op = "buyRevnetTokens"
        /\ RLt(calls[j].postPool.revnetToken, calls[j].prePool.revnetToken)
    /\ \E j \in Trades :
        RLt(Product(calls[j].postPool), Product(calls[j].prePool))

(***************************************************************************)
(* Properties of the Revnet.                                               *)
(***************************************************************************)
\* the calls of createTokensAtCeiling(amountIn, day) with amountIn > 0 that
\* are followed at once, on the same day, by destroyTokensAtFloor of all the
\* tokens returned, with no boost diversion and priceFloorTaxIntensity = 0
RoundTrips ==
    {j \in 1..(Len(calls) - 1) :
        /\ calls[j].op = "createTokensAtCeiling"
        /\ RGt(calls[j].arg, Zero)
        /\ calls[j + 1].op = "destroyTokensAtFloor"
        /\ calls[j + 1].arg = calls[j].ret
        /\ calls[j + 1].day = calls[j].day
        /\ \/ calls[j].day >= calls[j].preRevnet.boostDurationInDays
           \/ calls[j].preRevnet.boostPercent = Zero
        /\ calls[j].preRevnet.priceFloorTaxIntensity = Zero}

\* C7 as stated: from any Revnet state the round trip returns exactly
\* amountIn.
RoundTripExact ==
    \A j \in RoundTrips : calls[j + 1].ret = calls[j].arg

\* C7, amended: the round trip returns the share of the balance that the
\* returned tokens are of the supply, (ethBalance + amountIn) * (tokens /
\* (tokenSupply + tokens)), which is amountIn, up to Epsilon of it, when
\* before the issue ethBalance * getTokensCreatedPerEth(day) = tokenSupply,
\* as in an empty Revnet; is not above amountIn by more than that when the
\* supply is larger; and is less than amountIn when the supply is larger by
\* more than Epsilon of the supply after the issue.
RoundTripProRata ==
    \A j \in RoundTrips :
        LET pre == calls[j].preRevnet
            amountIn == calls[j].arg
            tokens == calls[j].ret
            backed == RMul(pre.ethBalance,
                           getTokensCreatedPerEth(pre, calls[j].day))
        IN  /\ calls[j + 1].ret =
                   RMul(RAdd(pre.ethBalance, amountIn),
                        RDiv(tokens, RAdd(pre.tokenSupply, tokens)))
            /\ backed = pre.tokenSupply => Near(calls[j + 1].ret, amountIn, amountIn)
            /\ RLe(backed, pre.tokenSupply) =>
                   NotBelow(amountIn, calls[j + 1].ret, amountIn)
            /\ RGt(RSub(pre.tokenSupply, backed),
                   RMul(Epsilon, RAdd(pre.tokenSupply, tokens))) =>
                   RLt(calls[j + 1].ret, amountIn)

\* a round trip that returned less than was paid in
RoundTripProRataWitness ==
    \E j \in RoundTrips : RLt(calls[j + 1].ret, calls[j].arg)

\* C8 as stated: full exit.  For a Revnet with tokenSupply > 0 and any
\* priceFloorTaxIntensity in [0,1], getEthReclaimAmount(tokenSupply) equals
\* ethBalance exactly.
FullExit ==
    RGt(revnet.tokenSupply, Zero) =>
        getEthReclaimAmount(revnet, revnet.tokenSupply) = revnet.ethBalance

\* C8: full exit up to rounding.  getEthReclaimAmount(tokenSupply) is
\* ethBalance up to Epsilon of it: the factor (1 * tax + 1) - tax that the
\* balance is multiplied by is 1 only up to its rounding.
FullExitRounded ==
    RGt(revnet.tokenSupply, Zero) =>
        Near(getEthReclaimAmount(revnet, revnet.tokenSupply), revnet.ethBalance,
             revnet.ethBalance)

\* a taxed Revnet holding ETH after an issue and a partial redemption, for
\* which the whole supply reclaims less than the balance
FullExitWitness ==
    /\ RGt(revnet.tokenSupply, Zero)
    /\ RGt(revnet.ethBalance, Zero)
    /\ RGt(revnet.priceFloorTaxIntensity, Zero)
    /\ calls # <<>>
    /\ Last.op = "destroyTokensAtFloor"
    /\ RLt(getEthReclaimAmount(revnet, revnet.tokenSupply), revnet.ethBalance)

\* no day has passed since the constructor or the latest call.  A day that
\* passes leaves the Revnet as it is, so that every Revnet reached is the
\* Revnet of such a state
JustCalled == day = (IF calls = <<>> THEN 0 ELSE Last.day)

\* the amounts of tokens the floor tax is compared on
Shares == {Q(1, 4), Q(1, 2), R(2)}

\* the share of the balance that falls to tokensIn pro rata
ProRata(r, tokensIn) == RDiv(RMul(r.ethBalance, tokensIn), r.tokenSupply)

\* C9 as stated: floor tax.  For priceFloorTaxIntensity > 0, ethBalance > 0
\* and 0 < tokensIn < tokenSupply, getEthReclaimAmount(tokensIn) is strictly
\* less than ethBalance * tokensIn / tokenSupply.
FloorTax ==
    \A tokensIn \in Shares :
        (/\ RGt(revnet.priceFloorTaxIntensity, Zero)
         /\ RGt(revnet.ethBalance, Zero)
         /\ RLt(tokensIn, revnet.tokenSupply)) =>
            RLt(getEthReclaimAmount(revnet, tokensIn), ProRata(revnet, tokensIn))

\* C9: floor tax up to rounding.  Under the same conditions
\* getEthReclaimAmount(tokensIn) is not above the pro-rata amount by more
\* than Epsilon of it, and is strictly less when the tax takes more than
\* that: when priceFloorTaxIntensity * (1 - tokensIn / tokenSupply) > Epsilon.
\* The Revnets compared are those a call or the constructor leaves.
FloorTaxRounded ==
    (/\ JustCalled
     /\ RGt(revnet.priceFloorTaxIntensity, Zero)
     /\ RGt(revnet.ethBalance, Zero)) =>
        \A tokensIn \in {x \in Shares : RLt(x, revnet.tokenSupply)} :
            LET reclaim == getEthReclaimAmount(revnet, tokensIn)
                proRata == ProRata(revnet, tokensIn)
            IN  /\ NotBelow(proRata, reclaim, proRata)
                /\ RGt(RMul(revnet.priceFloorTaxIntensity,
                            RSub(One, RDiv(tokensIn, revnet.tokenSupply))),
                       Epsilon) =>
                       RLt(reclaim, proRata)

\* a taxed Revnet holding ETH, with more tokens than the largest share, from
\* which tokens have been redeemed at less than pro rata
FloorTaxWitness ==
    /\ RGt(revnet.priceFloorTaxIntensity, Zero)
    /\ RGt(revnet.ethBalance, Zero)
    /\ \A tokensIn \in Shares : RLt(tokensIn, revnet.tokenSupply)
    /\ \E j \in 1..Len(calls) :
        /\ calls[j].op = "destroyTokensAtFloor"
        /\ RGt(calls[j].arg, Zero)
        /\ RLt(calls[j].ret, ProRata(calls[j].preRevnet, calls[j].arg))

\* the calls of createTokensAtCeiling made on the Revnet
Issues == {j \in 1..Len(calls) : calls[j].op = "createTokensAtCeiling"}

\* the scenario of the specification: ceiling step 0.02 per day, tax 0.33,
\* premint 100, boost 0.1 for 100 days; 2 issued on day 0 raise the supply by
\* 2 and the boost by 0.2, return 1.8 and make the balance 2
IssuanceScenario ==
    LET r == newRevnet(Q(1, 50), 1, Q(33, 100), R(100), Q(1, 10), 100)
        c == createTokensAtCeiling(r, R(2), 0)
    IN  /\ c.revnet.tokenSupply = RAdd(r.tokenSupply, R(2))
        /\ c.revnet.tokensSentToBoost = RAdd(r.tokensSentToBoost, Q(1, 5))
        /\ c.ret = Q(9, 5)
        /\ c.revnet.ethBalance = R(2)

\* C11: issuance.  createTokensAtCeiling(amountIn, day) adds amountIn to
\* ethBalance and tokensOut = amountIn * getTokensCreatedPerEth(day) to
\* tokenSupply; if day < boostDurationInDays it adds boostPercent * tokensOut
\* to tokensSentToBoost and returns tokensOut * (1 - boostPercent), otherwise
\* it leaves tokensSentToBoost as it was and returns tokensOut.  Nothing else
\* of the Revnet changes.  The scenario of the specification is an instance,
\* evaluated before the first call.
Issuance ==
    /\ calls = <<>> => IssuanceScenario
    /\ \A j \in Issues :
            LET pre == calls[j].preRevnet
                post == calls[j].postRevnet
                amountIn == calls[j].arg
                tokensOut == RMul(amountIn, getTokensCreatedPerEth(pre, calls[j].day))
                boosted == calls[j].day < pre.boostDurationInDays
            IN  /\ post.ethBalance = RAdd(pre.ethBalance, amountIn)
                /\ post.tokenSupply = RAdd(pre.tokenSupply, tokensOut)
                /\ post.tokensSentToBoost =
                       IF boosted
                       THEN RAdd(pre.tokensSentToBoost, RMul(pre.boostPercent, tokensOut))
                       ELSE pre.tokensSentToBoost
                /\ calls[j].ret =
                       IF boosted THEN RMul(tokensOut, RSub(One, pre.boostPercent))
                       ELSE tokensOut
                /\ post = [pre EXCEPT !.ethBalance = post.ethBalance,
                                      !.tokenSupply = post.tokenSupply,
                                      !.tokensSentToBoost = post.tokensSentToBoost]

\* an issue made during a boost, which diverted a part of the tokens, and an
\* issue made after the boost had ended, at a ceiling that had risen
IssuanceWitness ==
    /\ \E j \in Issues :
        /\ calls[j].day < calls[j].preRevnet.boostDurationInDays
        /\ RGt(calls[j].postRevnet.tokensSentToBoost,
               calls[j].preRevnet.tokensSentToBoost)
        /\ RLt(calls[j].ret, calls[j].arg)
    /\ \E j \in Issues :
        /\ calls[j].day >= calls[j].preRevnet.boostDurationInDays
        /\ calls[j].preRevnet.boostPercent # Zero
        /\ calls[j].postRevnet.tokensSentToBoost =
               calls[j].preRevnet.tokensSentToBoost
        /\ RLt(calls[j].ret, calls[j].arg)

(***************************************************************************)
(* Properties of the router.                                               *)
(***************************************************************************)
Purchases == {j \in 1..Len(calls) : calls[j].op = "purchaseRevnetTokens"}

Sales == {j \in 1..Len(calls) : calls[j].op = "sellRevnetTokens"}

\* the Pool's quote for a purchase c, before and after the fee, and what the
\* Revnet would mint for it
TokenQuotePlusFee(c) ==
    RSub(c.prePool.revnetToken,
         RDiv(RMul(c.prePool.eth, c.prePool.revnetToken),
              RAdd(c.prePool.eth, c.arg)))

TokenQuote(c) == RMul(TokenQuotePlusFee(c), RSub(One, c.prePool.fee))

MintQuote(c) == RMul(getTokensCreatedPerEth(c.preRevnet, c.day), c.arg)

\* C12: purchase routing.  purchaseRevnetTokens(ethSpent) executes on the Pool
\* only if the Pool is deployed, the Pool's token reserve exceeds the quoted
\* amount and the Pool's post-fee quote is strictly greater than
\* getTokensCreatedPerEth(day) * ethSpent; in every other case, a tie
\* included, it mints at the Revnet.  The amounts compared are the doubles
\* the code computes.  Every purchase is executed by exactly one venue and
\* returns an amount of tokens.
PurchaseRouting ==
    \A j \in Purchases :
        LET c == calls[j]
            viaPool == /\ c.day >= c.prePool.dayDeployed
                       /\ RGt(c.prePool.revnetToken, TokenQuotePlusFee(c))
                       /\ RGt(TokenQuote(c), MintQuote(c))
        IN  /\ c.source \in {"pool", "revnet"}
            /\ c.source = "pool" <=> viaPool
            /\ c.source = "pool" =>
                /\ c.postPool = buyRevnetTokens(c.prePool, c.arg).pool
                /\ c.postRevnet.tokenSupply = c.preRevnet.tokenSupply
                /\ c.postRevnet.ethBalance = c.preRevnet.ethBalance
                /\ RLe(c.ret, buyRevnetTokens(c.prePool, c.arg).ret)
            /\ c.source = "revnet" =>
                /\ c.postPool = c.prePool
                /\ c.postRevnet = createTokensAtCeiling(c.preRevnet, c.arg, c.day).revnet
                /\ c.ret = createTokensAtCeiling(c.preRevnet, c.arg, c.day).ret
            /\ IsFinite(c.ret)
            /\ RGe(c.ret, Zero)

\* a purchase for which the deployed Pool quoted exactly what the Revnet
\* mints, and which was minted at the Revnet
PurchaseRoutingWitness ==
    \E j \in Purchases :
        /\ calls[j].day >= calls[j].prePool.dayDeployed
        /\ RGt(calls[j].prePool.revnetToken, TokenQuotePlusFee(calls[j]))
        /\ TokenQuote(calls[j]) = MintQuote(calls[j])
        /\ RGt(calls[j].arg, Zero)
        /\ calls[j].source = "revnet"

\* the Pool's quote for a sale c, before and after the fee, and what the
\* Revnet would pay for it
EthQuotePlusFee(c) ==
    RSub(c.prePool.eth,
         RDiv(RMul(c.prePool.eth, c.prePool.revnetToken),
              RAdd(c.prePool.revnetToken, c.arg)))

EthQuote(c) == RMul(EthQuotePlusFee(c), RSub(One, c.prePool.fee))

ReclaimQuote(c) == getEthReclaimAmount(c.preRevnet, c.arg)

SaleViaPool(c) ==
    /\ c.day >= c.prePool.dayDeployed
    /\ RGt(c.prePool.eth, EthQuotePlusFee(c))
    /\ RGt(EthQuote(c), ReclaimQuote(c))

\* C13 as stated: sale routing.  sellRevnetTokens(tokens) executes on the Pool
\* if the Pool is deployed, has sufficient ETH reserve for the quote and its
\* post-fee quote is strictly greater than getEthReclaimAmount(tokens);
\* otherwise it redeems at the Revnet if the Revnet's ethBalance can cover
\* the redemption amount (amount <= ethBalance), and only then; otherwise
\* neither venue is touched and the proceeds are 0.  The quotes compared are
\* the doubles the code computes.
SaleRouting ==
    \A j \in Sales :
        LET c == calls[j]
            covered == RLe(ReclaimQuote(c), c.preRevnet.ethBalance)
        IN  /\ c.source = "pool" <=> SaleViaPool(c)
            /\ c.source = "pool" =>
                /\ c.postPool = buyEth(c.prePool, c.arg).pool
                /\ c.ret = buyEth(c.prePool, c.arg).ret
            /\ c.source = "revnet" =>
                /\ covered
                /\ c.postRevnet = destroyTokensAtFloor(c.preRevnet, c.arg).revnet
                /\ c.ret = ReclaimQuote(c)
            /\ (~SaleViaPool(c) /\ covered) => c.source = "revnet"
            /\ c.source = "undefined" =>
                /\ c.ret = Zero
                /\ c.postRevnet = c.preRevnet
                /\ c.postPool = c.prePool

Unfulfilled == {j \in Sales : calls[j].source = "undefined"}

\* C14: unfulfilled sale.  A sale satisfied by neither venue (the Pool is not
\* chosen and the reclaim amount is not below ethBalance, as the doubles the
\* code computes compare), and only such a sale, returns ethReceived = 0
\* with no source; the Revnet and the Pool are as before the attempt, at the
\* router's return and after the step of simulate() that made it; the step
\* completes; and the attempt is recorded on the trader, for whom
\* sellRevnetTokens is not called again.
UnfulfilledSale ==
    /\ [](\A j \in Sales :
            LET c == calls[j]
            IN  /\ c.source = "undefined" <=>
                       (/\ ~SaleViaPool(c)
                        /\ ~RLt(ReclaimQuote(c), c.preRevnet.ethBalance))
                /\ c.source = "undefined" =>
                    /\ c.ret = Zero
                    /\ c.postRevnet = c.preRevnet
                    /\ c.postPool = c.prePool
                    /\ c.trader \in 1..Len(traders)
                    /\ traders[c.trader].sale =
                           <<[revnetTokensSpent |-> c.arg, ethReceived |-> Zero,
                              source |-> "undefined", day |-> c.day]>>
                    /\ SalesOf(c.trader) = {j})
    /\ [][(/\ Len(calls') = Len(calls) + 1
           /\ calls'[Len(calls')].op = "sellRevnetTokens"
           /\ calls'[Len(calls')].source = "undefined") =>
              /\ revnet' = revnet
              /\ pool' = pool
              /\ k' = k + 1
              /\ pc' = pc]_vars

\* a run that has ended after a sale of a positive amount was left
\* unfulfilled by a Revnet that held ETH, with a whole day passing since
UnfulfilledSaleWitness ==
    /\ pc = "done"
    /\ \E j \in Unfulfilled :
        /\ RGt(calls[j].arg, Zero)
        /\ RGt(calls[j].preRevnet.ethBalance, Zero)
        /\ calls[j].day + 1 < day

(***************************************************************************)
(* Properties of the day loop                                              *)
(***************************************************************************)
\* C15: snapshot sequence.  simulate() terminates; the day only ever moves
\* from d to d + 1, and does so in the one step that appends the snapshot of
\* day d, taken after the forEach over the traders and carrying that day's
\* purchases and sales; every trade is made on the current day, before its
\* snapshot; the n-th snapshot (from 0) has day = n throughout, and at
\* termination there are daysToCalculate snapshots; a finished run takes no
\* further step.
SnapshotSequence ==
    /\ <>(pc = "done")
    /\ [](/\ Len(simulationResults) = day
          /\ day <= cfg.simParams.daysToCalculate
          /\ \A n \in 1..Len(simulationResults) : simulationResults[n].day = n - 1
          /\ \A j \in 1..Len(calls) : calls[j].day <= day)
    /\ [](pc = "done" =>
            /\ Len(simulationResults) = cfg.simParams.daysToCalculate
            /\ \A n \in 1..cfg.simParams.daysToCalculate :
                   simulationResults[n].day = n - 1)
    /\ [][\/ /\ day' = day
             /\ simulationResults' = simulationResults
          \/ /\ day' = day + 1
             /\ pc = "sales"
             /\ k > Len(traders)
             /\ Len(simulationResults') = Len(simulationResults) + 1
             /\ SubSeq(simulationResults', 1, Len(simulationResults)) = simulationResults
             /\ simulationResults'[day'].day = day
             /\ simulationResults'[day'].dailyPurchases = dailyPurchases
             /\ simulationResults'[day'].dailySales = dailySales
             /\ simulationResults'[day'].ethBalance = revnet.ethBalance
             /\ simulationResults'[day'].poolEthBalance = pool.eth
             /\ calls' = calls]_vars
    /\ [][calls' # calls =>
             /\ calls'[Len(calls')].day = day
             /\ Len(simulationResults) = day
             /\ day' = day]_vars
    /\ [][pc # "done"]_vars

\* a finished run of more than one day in which the last day saw a purchase
\* and a sale
SnapshotSequenceWitness ==
    /\ pc = "done"
    /\ Len(simulationResults) = MaxDays
    /\ MaxDays > 1
    /\ simulationResults[MaxDays].dailyPurchases # <<>>
    /\ simulationResults[MaxDays].dailySales # <<>>

\* the snapshots taken on or after the Pool's deployment day of a Pool with
\* both reserves positive and a Revnet with tokens outstanding, so that the
\* three prices are numbers
PricedSnapshots ==
    {n \in 1..Len(simulationResults) :
        /\ simulationResults[n].day >= pool.dayDeployed
        /\ RGt(simulationResults[n].poolEthBalance, Zero)
        /\ RGt(simulationResults[n].poolRevnetTokenBalance, Zero)
        /\ RGt(simulationResults[n].tokenSupply, Zero)}

\* C16 as stated: price band.  In every such snapshot
\* priceFloor <= poolRevnetTokenPrice <= priceCeiling.
PriceBand ==
    \A n \in PricedSnapshots :
        /\ RLe(simulationResults[n].priceFloor,
               simulationResults[n].poolRevnetTokenPrice)
        /\ RLe(simulationResults[n].poolRevnetTokenPrice,
               simulationResults[n].priceCeiling)

(***************************************************************************)
(* Which quotes the Simulator invokes.  The router's conditions are        *)
(* evaluated left to right and stop at the first false conjunct: a Pool    *)
(* quote is invoked by every routed trade made on or after dayDeployed;    *)
(* getEthReclaimAmount is invoked by every sale, in the Pool's condition   *)
(* or in the Revnet's.  The snapshot invokes getEthReclaimAmount and       *)
(* getMarginalPriceOfRevnetToken on every day, and records the balances it *)
(* invoked them on.                                                        *)
(***************************************************************************)
PoolQuoted(c) == c.day >= c.prePool.dayDeployed

ReclaimQuoted(c) == c.op = "sellRevnetTokens"

PoolReady(eth, revnetToken, d) ==
    /\ RGt(eth, Zero)
    /\ RGt(revnetToken, Zero)
    /\ d >= pool.dayDeployed

\* C17 as stated: precondition gating.  No redemption quote is invoked while
\* tokenSupply is 0, and no Pool quote, trade or spot price while a reserve
\* is 0 or the Pool is not deployed: by no routed trade and by no snapshot.
PreconditionGating ==
    /\ \A j \in 1..Len(calls) :
        /\ ReclaimQuoted(calls[j]) => RGt(calls[j].preRevnet.tokenSupply, Zero)
        /\ PoolQuoted(calls[j]) =>
               PoolReady(calls[j].prePool.eth, calls[j].prePool.revnetToken,
                         calls[j].day)
    /\ \A n \in 1..Len(simulationResults) :
        /\ RGt(simulationResults[n].tokenSupply, Zero)
        /\ PoolReady(simulationResults[n].poolEthBalance,
                     simulationResults[n].poolRevnetTokenBalance,
                     simulationResults[n].day)

(***************************************************************************)
(* Which venue a routed trade changes                                      *)
(***************************************************************************)
ViaPool == {j \in 1..Len(calls) : calls[j].source = "pool"}

ViaRevnet == {j \in 1..Len(calls) : calls[j].source = "revnet"}

\* the tokens a purchase c made at the Pool buys there
Bought(c) == buyRevnetTokens(c.prePool, c.arg).ret

\* the boost's share of a purchase c made at the Pool
BoostShare(c) ==
    IF c.op = "purchaseRevnetTokens" /\ c.day < c.preRevnet.boostDurationInDays
    THEN RMul(Bought(c), c.preRevnet.boostPercent)
    ELSE Zero

\* C18 as stated: a Pool-routed trade leaves tokenSupply, ethBalance and
\* tokensSentToBoost unchanged, and a Revnet-routed trade leaves the Pool
\* unchanged, up to the router's return.
EitherVenueExact ==
    /\ \A j \in ViaPool :
        /\ calls[j].postRevnet.tokenSupply = calls[j].preRevnet.tokenSupply
        /\ calls[j].postRevnet.ethBalance = calls[j].preRevnet.ethBalance
        /\ calls[j].postRevnet.tokensSentToBoost = calls[j].preRevnet.tokensSentToBoost
    /\ \A j \in ViaRevnet : calls[j].postPool = calls[j].prePool

\* C18: up to the router's return, a Revnet-routed purchase or sale leaves
\* the Pool as it was; a Pool-routed sale leaves the Revnet as it was; a
\* Pool-routed purchase leaves tokenSupply and ethBalance unchanged and adds
\* to tokensSentToBoost the boost's share of the tokens bought, which is
\* boostPercent of them while day < boostDurationInDays and nothing after;
\* the buyer receives the rest.
EitherVenue ==
    /\ \A j \in ViaPool :
        LET c == calls[j]
        IN  /\ c.postRevnet =
                   [c.preRevnet EXCEPT !.tokensSentToBoost =
                        RAdd(c.preRevnet.tokensSentToBoost, BoostShare(c))]
            /\ c.op = "purchaseRevnetTokens" =>
                   c.ret = RSub(Bought(c), BoostShare(c))
            /\ c.op = "sellRevnetTokens" => c.postRevnet = c.preRevnet
            /\ c.postPool # c.prePool
    /\ \A j \in ViaRevnet :
        /\ calls[j].postPool = calls[j].prePool
        /\ calls[j].postRevnet # calls[j].preRevnet

\* a purchase at the Pool during the boost that moved tokensSentToBoost, and
\* a trade routed to the Revnet in the same run
EitherVenueWitness ==
    /\ \E j \in ViaPool :
        /\ calls[j].op = "purchaseRevnetTokens"
        /\ RGt(calls[j].postRevnet.tokensSentToBoost,
               calls[j].preRevnet.tokensSentToBoost)
    /\ ViaRevnet # {}

(***************************************************************************)
(* The purchase loop's Poisson draws                                       *)
(***************************************************************************)
\* the calls of poissonRandomNumber made so far in the run, each with the
\* generator state it started from and its result
PoissonDraws == {e \in samples : e[1] = "poisson"}

\* the days whose purchase loop has ended
LoopsEnded == IF pc = "sales" THEN day + 1 ELSE day

\* C19 as stated: daily purchase count.  One Poisson number is drawn per day,
\* and the day's purchases are exactly as many as the number drawn.
DailyPurchaseCount ==
    /\ pc \in {"sales", "done"} => Cardinality(PoissonDraws) = LoopsEnded
    /\ \A n \in 1..Len(simulationResults) :
        \E e \in PoissonDraws :
            e[3] = Len(simulationResults[n].dailyPurchases)

(***************************************************************************)
(* The Pool before its deployment day                                      *)
(***************************************************************************)
\* C20: before deployment the Pool is untouched.  While day < dayDeployed the
\* Pool is the one the constructor built: no purchase or sale of such a day
\* is routed to it, none changes it, no liquidity is fed into it, and every
\* snapshot with day < dayDeployed shows its initial reserves and zero
\* accumulated fees.
PoolUntouchedBeforeDeployment ==
    /\ day < pool.dayDeployed => pool = Simulator(cfg).pool
    /\ \A j \in 1..Len(calls) :
        calls[j].day < calls[j].prePool.dayDeployed =>
            /\ calls[j].source # "pool"
            /\ calls[j].prePool = Simulator(cfg).pool
            /\ calls[j].postPool = calls[j].prePool
    /\ \A n \in 1..Len(simulationResults) :
        simulationResults[n].day < pool.dayDeployed =>
            /\ simulationResults[n].poolEthBalance = cfg.poolParams.eth
            /\ simulationResults[n].poolRevnetTokenBalance = cfg.poolParams.revnetToken
            /\ simulationResults[n].ethFeesAccumulated = Zero
            /\ simulationResults[n].revnetTokenFeesAccumulated = Zero

\* a snapshot taken before the deployment day of a Pool with reserves, of a
\* day that saw a purchase and a fulfilled sale with liquidity ratios set,
\* in a run that went on to trade at the deployed Pool
PoolUntouchedBeforeDeploymentWitness ==
    /\ RGt(cfg.poolParams.eth, Zero)
    /\ RGt(cfg.simParams.ethLiquidityRatio, Zero)
    /\ \E n \in 1..Len(simulationResults) :
        /\ simulationResults[n].day < pool.dayDeployed
        /\ simulationResults[n].dailyPurchases # <<>>
        /\ \E x \in 1..Len(simulationResults[n].dailySales) :
               RGt(simulationResults[n].dailySales[x].ethReceived, Zero)
    /\ \E j \in 1..Len(calls) : calls[j].day >= pool.dayDeployed

(***************************************************************************)
(* Settlement of the Pool's trades                                         *)
(***************************************************************************)
\* the specification's scenario: a Pool of 10 and 10 with fee 0, a trade
\* spending 2 of one asset, in either direction, yields 10 - 100 / 12, about
\* 1.667, of the other and leaves reserves of 12 and about 8.333
SettlementScenario ==
    LET p == newPool(R(10), R(10), 0, Zero)
        a == buyRevnetTokens(p, R(2))
        b == buyEth(p, R(2))
        out == RSub(R(10), RDiv(R(100), R(12)))
    IN  /\ a.ret = out
        /\ Near(out, Q(5, 3), One)
        /\ a.pool.eth = R(12)
        /\ a.pool.revnetToken = RDiv(R(100), R(12))
        /\ b.ret = out
        /\ b.pool.revnetToken = R(12)
        /\ b.pool.eth = RDiv(R(100), R(12))
        /\ Near(b.pool.eth, Q(25, 3), One)

\* the trade c of the Pool, its quotes `net` and `gross` and the reserve
\* `out` it pays from: c raises the other reserve, `in`, by its argument,
\* lowers `out` by the quote before the fee, and adds the fee on that quote
\* to the accumulator `fees` and to nothing else
Settles(c, net, gross, in, out, fees) ==
    /\ c.postPool[in] = RAdd(c.prePool[in], c.arg)
    /\ RSub(c.prePool[out], c.postPool[out]) = gross
    /\ c.postPool[fees] = RAdd(c.prePool[fees], RMul(c.prePool.fee, gross))
    /\ c.postPool = [c.prePool EXCEPT ![in] = c.postPool[in],
                                      ![out] = c.postPool[out],
                                      ![fees] = c.postPool[fees]]

\* C21 as stated: trade settlement matches the quotes.  From the same Pool
\* state, buyRevnetTokens(x) returns exactly getRevnetTokenReturn(x), lowers
\* the token reserve by getRevnetTokenReturnPlusFee(x), raises the ETH
\* reserve by x and adds fee * getRevnetTokenReturnPlusFee(x) to
\* revnetTokenFeesAccumulated and to nothing else; buyEth likewise with
\* ethFeesAccumulated.  The amount returned plus the fee accrued is the
\* decrease of the output reserve.
Settlement ==
    /\ SettlementScenario
    /\ \A j \in 1..Len(calls) :
        LET c == calls[j]
        IN  /\ c.op = "buyRevnetTokens" =>
                LET net == getRevnetTokenReturn(c.prePool, c.arg)
                    gross == getRevnetTokenReturnPlusFee(c.prePool, c.arg)
                IN  /\ Settles(c, net, gross, "eth", "revnetToken",
                               "revnetTokenFeesAccumulated")
                    /\ c.ret = net
                    /\ RAdd(c.ret, RMul(c.prePool.fee, gross)) = gross
            /\ c.op = "buyEth" =>
                LET net == getEthReturn(c.prePool, c.arg)
                    gross == getEthReturnPlusFee(c.prePool, c.arg)
                IN  /\ Settles(c, net, gross, "revnetToken", "eth",
                               "ethFeesAccumulated")
                    /\ c.ret = net
                    /\ RAdd(c.ret, RMul(c.prePool.fee, gross)) = gross

\* C21: trade settlement matches the quotes up to rounding.  The reserves
\* and the accumulators are settled as stated; the amount returned, which
\* the trade computes as gross - gross * fee and the quote as
\* gross * (1 - fee), is the quote up to Epsilon of the quote before the fee,
\* and so is the amount returned plus the fee accrued that quote.
SettlementRounded ==
    /\ SettlementScenario
    /\ \A j \in 1..Len(calls) :
        LET c == calls[j]
        IN  /\ c.op = "buyRevnetTokens" =>
                LET net == getRevnetTokenReturn(c.prePool, c.arg)
                    gross == getRevnetTokenReturnPlusFee(c.prePool, c.arg)
                IN  /\ Settles(c, net, gross, "eth", "revnetToken",
                               "revnetTokenFeesAccumulated")
                    /\ c.ret = RSub(gross, RMul(gross, c.prePool.fee))
                    /\ Near(c.ret, net, gross)
                    /\ Near(RAdd(c.ret, RMul(c.prePool.fee, gross)), gross, gross)
            /\ c.op = "buyEth" =>
                LET net == getEthReturn(c.prePool, c.arg)
                    gross == getEthReturnPlusFee(c.prePool, c.arg)
                IN  /\ Settles(c, net, gross, "revnetToken", "eth",
                               "ethFeesAccumulated")
                    /\ c.ret = RSub(gross, RMul(gross, c.prePool.fee))
                    /\ Near(c.ret, net, gross)
                    /\ Near(RAdd(c.ret, RMul(c.prePool.fee, gross)), gross, gross)

\* a Pool with a fee strictly between 0 and 1 that has settled a trade of a
\* positive amount in each direction and accrued a fee on both, and has
\* returned an amount that is not the quote
SettlementWitness ==
    /\ RGt(pool.fee, Zero)
    /\ RLt(pool.fee, One)
    /\ RGt(pool.ethFeesAccumulated, Zero)
    /\ RGt(pool.revnetTokenFeesAccumulated, Zero)
    /\ \E j \in 1..Len(calls) :
        /\ calls[j].op = "buyRevnetTokens"
        /\ calls[j].ret # getRevnetTokenReturn(calls[j].prePool, calls[j].arg)
    /\ \E j \in 1..Len(calls) :
        calls[j].op = "buyEth" /\ RGt(calls[j].ret, Zero)
    /\ \E j \in 1..Len(calls) :
        calls[j].op = "buyRevnetTokens" /\ RGt(calls[j].ret, Zero)

(***************************************************************************)
(* The boost accumulator                                                   *)
(***************************************************************************)
\* C22: boost accumulator.  tokensSentToBoost is premintAmount when the run
\* begins; no step of the run lowers it; and no step taken on a day >=
\* boostDurationInDays changes it, whether the trade is executed by the Pool
\* or by the Revnet.  The snapshots, one per day, show the same.
BoostAccumulator ==
    /\ [](/\ pc = "start" => revnet.tokensSentToBoost = cfg.revnetParams.premintAmount
          /\ RGe(revnet.tokensSentToBoost, cfg.revnetParams.premintAmount)
          /\ \A j \in 1..Len(calls) :
              /\ RGe(calls[j].postRevnet.tokensSentToBoost,
                     calls[j].preRevnet.tokensSentToBoost)
              /\ calls[j].day >= calls[j].preRevnet.boostDurationInDays =>
                     calls[j].postRevnet.tokensSentToBoost =
                         calls[j].preRevnet.tokensSentToBoost
          /\ \A n \in 2..Len(simulationResults) :
              /\ RGe(simulationResults[n].tokensSentToBoost,
                     simulationResults[n - 1].tokensSentToBoost)
              /\ simulationResults[n].day >= revnet.boostDurationInDays =>
                     simulationResults[n].tokensSentToBoost =
                         simulationResults[n - 1].tokensSentToBoost)
    /\ [][/\ RGe(revnet'.tokensSentToBoost, revnet.tokensSentToBoost)
          /\ day >= revnet.boostDurationInDays =>
                 revnet'.tokensSentToBoost = revnet.tokensSentToBoost]_vars

\* a run with a boost in which the accumulator rose above the premint by a
\* purchase made during the boost, and which after the boost had ended saw a
\* purchase at the Pool
BoostAccumulatorWitness ==
    /\ RGt(revnet.boostPercent, Zero)
    /\ RGt(revnet.tokensSentToBoost, cfg.revnetParams.premintAmount)
    /\ \E j \in 1..Len(calls) :
        /\ calls[j].op = "purchaseRevnetTokens"
        /\ calls[j].source = "pool"
        /\ calls[j].day >= revnet.boostDurationInDays

(***************************************************************************)
(* The trader list                                                         *)
(***************************************************************************)
RECURSIVE PurchasesRecorded(_)
\* the number of entries in the dailyPurchases lists of the first n snapshots
PurchasesRecorded(n) ==
    IF n = 0 THEN 0
    ELSE PurchasesRecorded(n - 1) + Len(simulationResults[n].dailyPurchases)

\* the purchase calls that created trader x
CreatedBy(x) == {j \in Purchases : calls[j].trader = x}

\* C23: traders exist only with a purchase.  Every trader in the list has a
\* purchase record, made by the one purchase call that created it and dated
\* the day of that call; the list is as long as the dailyPurchases lists of
\* all snapshots and of the current day together; a step either leaves the
\* list's length or appends one trader, with its purchase record, in the step
\* that makes the purchase, and never alters a purchase record.
TradersHavePurchased ==
    /\ [](/\ Len(traders) =
                 PurchasesRecorded(Len(simulationResults)) + Len(dailyPurchases)
          /\ Len(traders) = Cardinality(Purchases)
          /\ \A x \in 1..Len(traders) :
              /\ Cardinality(CreatedBy(x)) = 1
              /\ \A j \in CreatedBy(x) :
                  /\ traders[x].purchase =
                         [ethSpent |-> calls[j].arg,
                          revnetTokensReceived |-> calls[j].ret,
                          source |-> calls[j].source, day |-> calls[j].day]
                  /\ calls[j].source \in {"pool", "revnet"}
                  /\ calls[j].day <= day)
    /\ [][/\ \/ Len(traders') = Len(traders)
             \/ /\ Len(traders') = Len(traders) + 1
                /\ traders'[Len(traders')].purchase.day = day
                /\ traders'[Len(traders')].sale = <<>>
                /\ Len(dailyPurchases') = Len(dailyPurchases) + 1
                /\ Len(calls') = Len(calls) + 1
                /\ calls'[Len(calls')].op = "purchaseRevnetTokens"
          /\ \A x \in 1..Len(traders) : traders'[x].purchase = traders[x].purchase
          /\ Len(dailyPurchases') > Len(dailyPurchases) =>
                 Len(traders') = Len(traders) + 1]_vars

\* a finished run whose trader list was filled on two different days
TradersHavePurchasedWitness ==
    /\ pc = "done"
    /\ Len(traders) >= 2
    /\ \E x, y \in 1..Len(traders) :
        traders[x].purchase.day < traders[y].purchase.day

(***************************************************************************)
(* The reclaim amount per token                                            *)
(***************************************************************************)
ReclaimPerToken(r, x) == RDiv(getEthReclaimAmount(r, x), x)

\* amounts of tokens to destroy: a quarter of the supply, the whole of it,
\* and one token
ReclaimSizes(r) == {RMul(Q(1, 4), r.tokenSupply), r.tokenSupply, One}

\* the snapshot just taken, if it is of a Revnet with tokens outstanding
ReferenceSnapshots ==
    {n \in {Len(simulationResults)} \ {0} :
        RGt(simulationResults[n].tokenSupply, Zero)}

\* the pairs <<x, getEthReclaimAmount(x) / x>> of the Revnet r for the
\* amounts x of ReclaimSizes(r) that are no more than its supply
PerToken(r) ==
    {<<x, ReclaimPerToken(r, x)>> :
        x \in {y \in ReclaimSizes(r) : RLe(y, r.tokenSupply)}}

\* C24 as stated: reclaim per token grows with size.  For a Revnet with
\* tokenSupply > 0 and ethBalance >= 0 and amounts 0 < x1 <= x2 <=
\* tokenSupply, getEthReclaimAmount(x1) / x1 <= getEthReclaimAmount(x2) / x2;
\* and in each snapshot of such a Revnet oneTokenReclaimAmount <=
\* hundredTokenReclaimAmountPerToken <= fiveHundredTokenReclaimAmountPerToken.
ReclaimPerTokenGrows ==
    /\ (RGt(revnet.tokenSupply, Zero) /\ RGe(revnet.ethBalance, Zero)) =>
           \A a, b \in PerToken(revnet) : RLe(a[1], b[1]) => RLe(a[2], b[2])
    /\ \A n \in ReferenceSnapshots :
        /\ RLe(simulationResults[n].oneTokenReclaimAmount,
               simulationResults[n].hundredTokenReclaimAmountPerToken)
        /\ RLe(simulationResults[n].hundredTokenReclaimAmountPerToken,
               simulationResults[n].fiveHundredTokenReclaimAmountPerToken)

\* C24: reclaim per token grows with size up to rounding.  Under the same
\* conditions the reclaim amount per token of the larger size is not below
\* that of the smaller by more than Epsilon of it.
ReclaimPerTokenGrowsRounded ==
    /\ (RGt(revnet.tokenSupply, Zero) /\ RGe(revnet.ethBalance, Zero)) =>
           \A a, b \in PerToken(revnet) :
               RLe(a[1], b[1]) => NotBelow(b[2], a[2], b[2])
    /\ \A n \in ReferenceSnapshots :
        /\ NotBelow(simulationResults[n].hundredTokenReclaimAmountPerToken,
                    simulationResults[n].oneTokenReclaimAmount,
                    simulationResults[n].hundredTokenReclaimAmountPerToken)
        /\ NotBelow(simulationResults[n].fiveHundredTokenReclaimAmountPerToken,
                    simulationResults[n].hundredTokenReclaimAmountPerToken,
                    simulationResults[n].fiveHundredTokenReclaimAmountPerToken)

\* a snapshot of a taxed Revnet holding ETH in which the larger reference
\* size reclaims strictly more per token, while the Revnet of the day
\* reclaims strictly more per token for the whole supply than for a quarter
ReclaimPerTokenGrowsWitness ==
    /\ RGt(revnet.priceFloorTaxIntensity, Zero)
    /\ RGt(revnet.ethBalance, Zero)
    /\ RLt(ReclaimPerToken(revnet, RMul(Q(1, 4), revnet.tokenSupply)),
           ReclaimPerToken(revnet, revnet.tokenSupply))
    /\ \E n \in ReferenceSnapshots :
        /\ RGt(simulationResults[n].ethBalance, Zero)
        /\ RLt(simulationResults[n].oneTokenReclaimAmount,
               simulationResults[n].hundredTokenReclaimAmountPerToken)

(***************************************************************************)
(* The two floor formulas                                                  *)
(***************************************************************************)
\* amounts of tokens put to both formulas: a third of the supply, twice the
\* supply, and half a token
FloorSizes(r) == {RMul(q, r.tokenSupply) : q \in {Q(1, 3), R(2)}} \cup {Q(1, 2)}

\* C25 as stated: the floor formula of the interactive chart,
\* priceFloor(tokens, supply, eth) with slider value c, gives the value of
\* getEthReclaimAmount(tokens) of a Revnet with tokenSupply = supply,
\* ethBalance = eth and priceFloorTaxIntensity = c, whenever supply > 0.
FloorVariant ==
    RGt(revnet.tokenSupply, Zero) =>
        \A x \in FloorSizes(revnet) :
            priceFloor(x, revnet.tokenSupply, revnet.ethBalance,
                       revnet.priceFloorTaxIntensity)
                = getEthReclaimAmount(revnet, x)

\* C25: the two floor formulas give the same value up to rounding.  They
\* multiply, divide and add in different orders, and round the weight that
\* the pro-rata amount eth * tokens / supply is multiplied by differently:
\* the two values differ by at most Epsilon of the pro-rata amount and the
\* value together.  The Revnets compared are those a call or the constructor
\* leaves.
FloorVariantRounded ==
    (JustCalled /\ RGt(revnet.tokenSupply, Zero)) =>
        \A x \in FloorSizes(revnet) :
            LET reclaim == getEthReclaimAmount(revnet, x)
            IN  Near(priceFloor(x, revnet.tokenSupply, revnet.ethBalance,
                                revnet.priceFloorTaxIntensity),
                     reclaim, RAdd(ProRata(revnet, x), reclaim))

\* a Revnet holding ETH, taxed at an intensity strictly between 0 and 1, for
\* which a third of the supply reclaims a positive amount that is less than
\* its share of the balance
FloorVariantWitness ==
    /\ RGt(revnet.tokenSupply, Zero)
    /\ RGt(revnet.ethBalance, Zero)
    /\ RGt(revnet.priceFloorTaxIntensity, Zero)
    /\ RLt(revnet.priceFloorTaxIntensity, One)
    /\ LET x == RMul(Q(1, 3), revnet.tokenSupply)
       IN  /\ RGt(priceFloor(x, revnet.tokenSupply, revnet.ethBalance,
                             revnet.priceFloorTaxIntensity), Zero)
           /\ RLt(priceFloor(x, revnet.tokenSupply, revnet.ethBalance,
                             revnet.priceFloorTaxIntensity),
                  RMul(Q(1, 3), revnet.ethBalance))
    /\ Len(calls) > 1

(***************************************************************************)
(* Redemptions and the Revnet's last token                                 *)
(***************************************************************************)
Redemptions == {j \in Sales : calls[j].source = "revnet"}

\* C26 as stated: a Revnet-routed redemption never empties the Revnet.  Every
\* sale the Revnet executes destroys fewer tokens than the supply and pays
\* less than the balance, leaving tokenSupply > 0 and ethBalance > 0; a sale
\* whose reclaim amount is the whole balance (the sale of the whole supply),
\* and any sale made while ethBalance is 0, is not executed by the Revnet.
NeverEmptied ==
    /\ \A j \in Redemptions :
        /\ RLt(calls[j].arg, calls[j].preRevnet.tokenSupply)
        /\ RLt(calls[j].ret, calls[j].preRevnet.ethBalance)
        /\ RGt(calls[j].postRevnet.tokenSupply, Zero)
        /\ RGt(calls[j].postRevnet.ethBalance, Zero)
    /\ \A j \in Sales :
        (\/ ReclaimQuote(calls[j]) = calls[j].preRevnet.ethBalance
         \/ calls[j].preRevnet.ethBalance = Zero
         \/ calls[j].arg = calls[j].preRevnet.tokenSupply) =>
            /\ calls[j].source # "revnet"
            /\ calls[j].postRevnet = calls[j].preRevnet

(***************************************************************************)
(* Where the tokens are                                                    *)
(***************************************************************************)
RECURSIVE TokensHeld(_)
\* the tokens the first n traders hold for sale: for each trader without a
\* sale record, purchase.revnetTokensReceived * (1 - revnetTokenLiquidityRatio)
TokensHeld(n) ==
    IF n = 0 THEN Zero
    ELSE RAdd(TokensHeld(n - 1),
              IF traders[n].sale = <<>>
              THEN RMul(traders[n].purchase.revnetTokensReceived,
                        RSub(One, cfg.simParams.revnetTokenLiquidityRatio))
              ELSE Zero)

TokensAccounted ==
    RAdd(RAdd(revnet.tokensSentToBoost, pool.revnetToken),
         RAdd(pool.revnetTokenFeesAccumulated, TokensHeld(Len(traders))))

RECURSIVE TokensAdrift(_)
\* the tokens of the first n calls that are in the supply and in none of
\* these places: the liquidity share of a purchase made before dayDeployed,
\* which is not fed to the Pool, and the tokens of an unfulfilled sale
TokensAdrift(n) ==
    IF n = 0 THEN Zero
    ELSE RAdd(TokensAdrift(n - 1),
              IF /\ calls[n].op = "purchaseRevnetTokens"
                 /\ calls[n].day < pool.dayDeployed
              THEN RMul(cfg.simParams.revnetTokenLiquidityRatio, calls[n].ret)
              ELSE IF /\ calls[n].op = "sellRevnetTokens"
                      /\ calls[n].source = "undefined"
              THEN calls[n].arg
              ELSE Zero)

\* C27 as stated: token conservation.  In every state of a run between two
\* steps of simulate(), tokenSupply >= tokensSentToBoost + pool.revnetToken +
\* pool.revnetTokenFeesAccumulated + the tokens held for sale by the traders
\* without a sale record; the two sides are equal when dayDeployed = 0 and no
\* sale has been left unfulfilled.
TokenConservation ==
    /\ RGe(revnet.tokenSupply, TokensAccounted)
    /\ (pool.dayDeployed = 0 /\ Unfulfilled = {}) =>
           revnet.tokenSupply = TokensAccounted

\* C27: token conservation up to rounding.  tokenSupply is the tokens
\* accounted for and the tokens adrift together, up to Epsilon of the
\* largest supply the run has had for the constructor and each call made, and
\* so not below the tokens accounted for by more than that, and equal to them
\* up to that when dayDeployed = 0 and no sale has been left unfulfilled.
TokenConservationRounded ==
    LET accounted == TokensAccounted
        scale == RoundedOff
    IN  /\ NotBelow(revnet.tokenSupply, accounted, scale)
        /\ Near(revnet.tokenSupply, RAdd(accounted, TokensAdrift(Len(calls))), scale)
        /\ (pool.dayDeployed = 0 /\ Unfulfilled = {}) =>
               Near(revnet.tokenSupply, accounted, scale)

\* a run with a Pool deployed from day 0, a boost that took tokens, liquidity
\* fed to the Pool and a fulfilled sale, all tokens accounted for, and a
\* trader still holding
TokenConservationWitness ==
    /\ pool.dayDeployed = 0
    /\ Unfulfilled = {}
    /\ RGt(revnet.tokensSentToBoost, cfg.revnetParams.premintAmount)
    /\ \E j \in Sales : RGt(calls[j].ret, Zero)
    /\ RGt(TokensHeld(Len(traders)), Zero)
    /\ RGt(cfg.simParams.revnetTokenLiquidityRatio, Zero)
    /\ Near(revnet.tokenSupply, TokensAccounted, LargestSupply)

(***************************************************************************)
(* The Pool's reserves                                                     *)
(***************************************************************************)
\* positive sizes of a trade, in ETH or in tokens, small and large against
\* the reserves
TradeSizes == {Q(1, 2), R(1), R(100)}

\* a trade of 2^60, beyond every reserve by more than a double's precision
HugeTrade == Round(0, <<1>>, 60, FALSE)

\* a trade within 2^50 times the reserve it is paid into
Reach == Round(0, <<1>>, 50, FALSE)

\* both reserves are positive now and after every call made, each with a
\* non-negative amount
ReservesStayPositive ==
    /\ RGt(pool.eth, Zero)
    /\ RGt(pool.revnetToken, Zero)
    /\ \A j \in 1..Len(calls) :
        /\ RGe(calls[j].arg, Zero)
        /\ RGt(calls[j].postPool.eth, Zero)
        /\ RGt(calls[j].postPool.revnetToken, Zero)

\* C28, as stated: Pool reserves stay strictly positive.  A Pool built with
\* eth > 0 and revnetToken > 0 has both reserves > 0 after any sequence of
\* buyEth, buyRevnetTokens, provideEth and provideRevnetTokens with
\* non-negative amounts, and in each of its states the router's two
\* reserve-sufficiency tests are true for every positive trade size.
ReservesPositive ==
    (RGt(cfg.poolParams.eth, Zero) /\ RGt(cfg.poolParams.revnetToken, Zero)) =>
        /\ ReservesStayPositive
        /\ \A x \in TradeSizes \cup {HugeTrade} :
            /\ RGt(pool.revnetToken, getRevnetTokenReturnPlusFee(pool, x))
            /\ RGt(pool.eth, getEthReturnPlusFee(pool, x))

\* C28: Pool reserves stay strictly positive.  A Pool built with eth > 0 and
\* revnetToken > 0 has both reserves > 0 after any sequence of buyEth,
\* buyRevnetTokens, provideEth and provideRevnetTokens with non-negative
\* amounts, and in each of its states the router's reserve-sufficiency test
\* of a purchase is true for every positive amount of ETH up to 2^50 times
\* the ETH reserve, and the test of a sale for every positive amount of
\* tokens up to 2^50 times the token reserve.
ReservesPositiveRounded ==
    (RGt(cfg.poolParams.eth, Zero) /\ RGt(cfg.poolParams.revnetToken, Zero)) =>
        /\ ReservesStayPositive
        /\ \A x \in TradeSizes \cup {HugeTrade} :
            /\ RLe(x, RMul(Reach, pool.eth)) =>
                RGt(pool.revnetToken, getRevnetTokenReturnPlusFee(pool, x))
            /\ RLe(x, RMul(Reach, pool.revnetToken)) =>
                RGt(pool.eth, getEthReturnPlusFee(pool, x))

\* a Pool that has traded a positive amount in each direction and taken
\* liquidity, whose reserves are no longer the initial ones, and whose quote
\* for the trade of 2^60 is the whole reserve
ReservesPositiveWitness ==
    /\ \E j \in 1..Len(calls) :
        calls[j].op = "buyEth" /\ RGt(calls[j].arg, Zero)
    /\ \E j \in 1..Len(calls) :
        calls[j].op = "buyRevnetTokens" /\ RGt(calls[j].arg, Zero)
    /\ \E j \in 1..Len(calls) :
        calls[j].op \in {"provideEth", "provideRevnetTokens"}
    /\ pool.eth # cfg.poolParams.eth
    /\ pool.revnetToken # cfg.poolParams.revnetToken
    /\ getRevnetTokenReturnPlusFee(pool, HugeTrade) = pool.revnetToken
    /\ RGt(getRevnetTokenReturnPlusFee(pool, R(100)), Zero)

(***************************************************************************)
(* The order of a day                                                      *)
(***************************************************************************)
\* the step appends a call of the router
Routed(op) ==
    /\ Len(calls') = Len(calls) + 1
    /\ calls'[Len(calls')].op = op

\* C29: order within a day.  The calls of the router are in the order of the
\* days; within a day every purchase comes before every sale, and the sales
\* come in the order in which their traders were created.  A purchase is made
\* in the purchase loop and its step ends with the token feed; the forEach
\* then starts at the first trader and moves on one trader at a time; a sale
\* is made there, of the trader the forEach is at, and its step ends with the
\* ETH feed; the snapshot is taken when the forEach is past the last trader
\* and changes neither venue.  A trader without a sale who has held for
\* minimumDaysHeld days - with minimumDaysHeld = 0, from its purchase day on -
\* is put to the sale draw when the forEach reaches it.
DayOrder ==
    /\ [](\A j1, j2 \in 1..Len(calls) :
            j1 < j2 =>
                /\ calls[j1].day <= calls[j2].day
                /\ (/\ calls[j1].day = calls[j2].day
                    /\ calls[j1].op = "sellRevnetTokens") =>
                       /\ calls[j2].op = "sellRevnetTokens"
                       /\ calls[j1].trader < calls[j2].trader)
    /\ [][Routed("purchaseRevnetTokens") =>
             LET c == calls'[Len(calls')]
             IN  /\ pc = "purchases"
                 /\ pc' = "purchases"
                 /\ c.trader = Len(traders) + 1
                 /\ revnet' = c.postRevnet
                 /\ pool' = IF day >= pool.dayDeployed
                            THEN provideRevnetTokens(c.postPool,
                                     RMul(cfg.simParams.revnetTokenLiquidityRatio,
                                          c.ret))
                            ELSE c.postPool]_vars
    /\ [][Routed("sellRevnetTokens") =>
             LET c == calls'[Len(calls')]
             IN  /\ pc = "sales"
                 /\ pc' = "sales"
                 /\ c.trader = k
                 /\ k' = k + 1
                 /\ revnet' = c.postRevnet
                 /\ pool' = IF day >= pool.dayDeployed
                            THEN provideEth(c.postPool,
                                     RMul(cfg.simParams.ethLiquidityRatio, c.ret))
                            ELSE c.postPool]_vars
    /\ [][(pc = "purchases" /\ pc' # "purchases") =>
             /\ pc' = "sales"
             /\ k' = 1
             /\ day' = day
             /\ calls' = calls]_vars
    /\ [][pc = "sales" =>
             \/ /\ pc' = "sales"
                /\ k <= Len(traders)
                /\ k' = k + 1
                /\ simulationResults' = simulationResults
             \/ /\ k = Len(traders) + 1
                /\ Len(simulationResults') = Len(simulationResults) + 1
                /\ calls' = calls
                /\ revnet' = revnet
                /\ pool' = pool
                /\ day' = day + 1]_vars
    /\ [][(/\ pc = "sales"
           /\ k <= Len(traders)
           /\ traders[k].sale = <<>>
           /\ day >= traders[k].purchase.day + cfg.simParams.minimumDaysHeld) =>
              sellRand' # sellRand]_vars

\* with minimumDaysHeld = 0 and a token feed, a day on which two traders
\* were created and the first of them sold, on its purchase day and after the
\* purchase of the second, the snapshot of the day being taken
DayOrderWitness ==
    /\ cfg.simParams.minimumDaysHeld = 0
    /\ RGt(cfg.simParams.revnetTokenLiquidityRatio, Zero)
    /\ Len(simulationResults) > 0
    /\ \E j1 \in Sales : \E j0 \in 1..Len(calls) :
        /\ j0 < j1
        /\ calls[j0].op = "purchaseRevnetTokens"
        /\ calls[j0].day = calls[j1].day
        /\ calls[j0].trader > calls[j1].trader
        /\ traders[calls[j1].trader].purchase.day = calls[j1].day

(***************************************************************************)
(* The random streams                                                      *)
(***************************************************************************)
\* the digits of a generator state to the base 256, lowest first, and those
\* of a = 1664525 = 0x0019660D and c = 1013904223 = 0x3C6EF35F
Digits(s) == <<s[2] % 256, s[2] \div 256, s[1] % 256, s[1] \div 256>>

DigitsA == <<13, 102, 25, 0>>

DigitsC == <<95, 243, 110, 60>>

\* (1664525 * state + 1013904223) mod 2^32 by long multiplication to the
\* base 256, as a state of two halves
Congruential(s) ==
    LET d  == Digits(s)
        c0 == DigitsA[1] * d[1] + DigitsC[1]
        c1 == DigitsA[1] * d[2] + DigitsA[2] * d[1] + DigitsC[2] + (c0 \div 256)
        c2 == DigitsA[1] * d[3] + DigitsA[2] * d[2] + DigitsA[3] * d[1]
              + DigitsC[3] + (c1 \div 256)
        c3 == DigitsA[1] * d[4] + DigitsA[2] * d[3] + DigitsA[3] * d[2]
              + DigitsA[4] * d[1] + DigitsC[4] + (c2 \div 256)
    IN  <<(c3 % 256) * 256 + (c2 % 256), (c1 % 256) * 256 + (c0 % 256)>>

RECURSIVE Draws(_, _)
\* the state n draws after the state s
Draws(s, n) == IF n = 0 THEN s ELSE Congruential(Draws(s, n - 1))

\* the state of a generator made with `seed` after n draws
Stream(seed, n) == Draws(<<seed \div Half, seed % Half>>, n)

RECURSIVE Reaches(_, _, _)
\* whether the state t is the state s or the state one of n draws after it
\* leaves
Reaches(s, t, n) == s = t \/ (n > 0 /\ Reaches(Congruential(s), t, n - 1))

\* the state is an integer of [0, 2^32), so that state / 2^32 is in [0, 1)
InRange(s) == s[1] \in 0..(Half - 1) /\ s[2] \in 0..(Half - 1)

\* C30: random streams.  Once simulate() has made them, the three generators
\* hold states in [0, 2^32); the generator of the purchase counts starts from
\* randomnessSeed + 2, that of the purchase sizes from randomnessSeed and
\* that of the sale trials from randomnessSeed + 1, and a generator only ever
\* moves by draws, each draw taking the state to
\* (1664525 * state + 1013904223) mod 2^32.  The purchase sizes have taken
\* two draws for each purchase made, whatever the purchase counts and the sale
\* trials took; a sale trial takes one draw of its generator and none of the
\* two others, and a step of the purchase loop takes none of the generator of
\* the sale trials, whose state is therefore one of the stream of
\* randomnessSeed + 1 however many purchases there were.
RandomStreams ==
    /\ [](pc # "start" =>
            /\ InRange(poissonRand) /\ InRange(buyRand) /\ InRange(sellRand)
            /\ buyRand = Stream(cfg.simParams.randomnessSeed, 2 * Len(traders))
            /\ \E n \in 0..(Len(traders) * (day + 1)) :
                   sellRand = Stream(cfg.simParams.randomnessSeed + 1, n)
            /\ Reaches(Stream(cfg.simParams.randomnessSeed + 2, 0), poissonRand,
                       (MaxPoisson + 1) * (Len(traders) + day + 1)))
    /\ [][pc = "start" =>
            /\ poissonRand' = Stream(cfg.simParams.randomnessSeed + 2, 0)
            /\ buyRand' = Stream(cfg.simParams.randomnessSeed, 0)
            /\ sellRand' = Stream(cfg.simParams.randomnessSeed + 1, 0)]_vars
    /\ [][(pc # "start" /\ sellRand' # sellRand) =>
            /\ pc = "sales"
            /\ k' = k + 1
            /\ sellRand' = Congruential(sellRand)
            /\ poissonRand' = poissonRand
            /\ buyRand' = buyRand]_vars
    /\ [][(pc # "start" /\ buyRand' # buyRand) =>
            /\ pc = "purchases"
            /\ Len(traders') = Len(traders) + 1
            /\ buyRand' = Congruential(Congruential(buyRand))
            /\ sellRand' = sellRand]_vars
    /\ [][(pc # "start" /\ poissonRand' # poissonRand) =>
            /\ pc = "purchases"
            /\ Reaches(Congruential(poissonRand), poissonRand', MaxPoisson)
            /\ sellRand' = sellRand]_vars

\* a run on seed 401 that has ended with three traders, after five sale
\* trials and purchase counts that took fifteen draws for six of the
\* purchase sizes
RandomStreamsWitness ==
    /\ pc = "done"
    /\ cfg.simParams.randomnessSeed = 401
    /\ Len(traders) = 3
    /\ sellRand = Stream(402, 5)
    /\ buyRand = Stream(401, 6)
    /\ poissonRand = Stream(403, 15)

====
